---- MODULE Spec2Model ----
(***************************************************************************)
(* Model of the location-safety scripts: the escalation check              *)
(* (escalation-check.js), the safety check (safety-check.js), the          *)
(* self-check (self-check.js) and the test-scenario injector               *)
(* (test-scenarios.js), with the files they share.                         *)
(***************************************************************************)
EXTENDS Integers, Sequences, FiniteSets, TLC

VARIABLES
    now,          \* wall clock, milliseconds (Date.now())
    stateFile,    \* content of safety-state.json
    decision,     \* what the last run of escalation-check.js printed
    escalated,    \* how many runs since the last write of stateFile printed 'escalate'
    locationFile, \* content of location.json
    overrideFile, \* content of test-override.json
    logs,         \* the files of logs/, by name
    run,          \* the running safety-check.js process
    emitted,      \* the reports the completed runs of safety-check.js printed, in order
    injector,     \* the last run of test-scenarios.js: its argument and exit code
    myLocationFile, \* content of my-location.json
    self,         \* the running self-check.js process
    configFile,   \* content of config.json
    web           \* the webhook server: the last request, its reply, the last record stored

escVars == <<stateFile, decision, escalated>>

safetyVars == <<locationFile, overrideFile, logs, run, emitted, injector>>

selfVars == <<myLocationFile, self>>

hostVars == <<configFile, web>>

vars == <<now, stateFile, decision, escalated, locationFile, overrideFile, logs, run,
          emitted, injector, myLocationFile, self, configFile, web>>

(***************************************************************************)
(* Time.  The clock moves over a grid of instants: every five minutes up   *)
(* to MaxSlots slots, each with the offsets 0 ms, 1 ms and 1 s, so that    *)
(* the differences 14m59s, 15m0s-1ms, 15m0s and 15m0s+1ms all occur.       *)
(***************************************************************************)
MaxSlots == 5

SlotMs == 5 * 60 * 1000

Offsets == {0, 1, 1000}

TimePoints == {k * SlotMs + o : k \in 0..MaxSlots, o \in Offsets}

MaxNow == MaxSlots * SlotMs + 1000

\* the count of escalations saturates here
EscCap == 2

(***************************************************************************)
(* JavaScript values that occur in the JSON files, as [t, n] records:      *)
(* null/undefined, the empty string, a non-empty string that is no date,   *)
(* an ISO timestamp string (n = its time in ms), a number, NaN.            *)
(***************************************************************************)
JsNull == [t |-> "null", n |-> 0]

JsEmpty == [t |-> "empty", n |-> 0]

JsText == [t |-> "text", n |-> 0]

JsIso(ms) == [t |-> "iso", n |-> ms]

JsNum(k) == [t |-> "num", n |-> k]

JsNaN == [t |-> "nan", n |-> 0]

\* JavaScript truthiness of a value
Truthy(v) ==
    CASE v.t = "null" -> FALSE
      [] v.t = "empty" -> FALSE
      [] v.t = "nan" -> FALSE
      [] v.t = "num" -> v.n # 0
      [] OTHER -> TRUE

\* new Date(v).getTime(): the time of an ISO string, NaN of any other string
DateGetTime(v) ==
    CASE v.t = "iso" -> JsNum(v.n)
      [] v.t = "num" -> JsNum(v.n)
      [] v.t = "null" -> JsNum(0)
      [] OTHER -> JsNaN

\* a - b on numbers; NaN if either is NaN
JsSub(a, b) == IF a.t = "nan" \/ b.t = "nan" THEN JsNaN ELSE JsNum(a.n - b.n)

\* a >= b on numbers; false if either is NaN
JsGeq(a, b) == a.t # "nan" /\ b.t # "nan" /\ a.n >= b.n

\* Math.round(a / d), d > 0: the nearest integer, halves towards +infinity
MathRoundDiv(a, d) == IF a.t = "nan" THEN JsNaN ELSE JsNum((2 * a.n + d) \div (2 * d))

MathFloorDivMutant(a, d) == IF a.t = "nan" THEN JsNaN ELSE JsNum(a.n \div d)

\* Math.ceil(a / d), d > 0
MathCeilDiv(a, d) == IF a.t = "nan" THEN JsNaN ELSE JsNum(-((-a.n) \div d))

(***************************************************************************)
(* escalation-check.js                                                     *)
(***************************************************************************)
ESCALATION_THRESHOLD_MS == 15 * 60 * 1000

EMERGENCY_CONTACT == "ashuppal@gmail.com"

\* safety-state.json: missing, not JSON, the JSON literal null, or an object
FileMissing == [kind |-> "missing", pendingAlert |-> JsNull, alertSentAt |-> JsNull, acknowledgedAt |-> JsNull]

FileGarbage == [kind |-> "garbage", pendingAlert |-> JsNull, alertSentAt |-> JsNull, acknowledgedAt |-> JsNull]

FileJsonNull == [kind |-> "jsonnull", pendingAlert |-> JsNull, alertSentAt |-> JsNull, acknowledgedAt |-> JsNull]

StateObject(p, s, a) == [kind |-> "object", pendingAlert |-> p, alertSentAt |-> s, acknowledgedAt |-> a]

\* what one run prints; action "-" is no output yet, "TypeError" an uncaught
\* exception (no JSON printed, exit code 1)
Decision(action, reason, pending, remaining, contact) ==
    [action |-> action, reason |-> reason, minutesPending |-> pending,
     minutesRemaining |-> remaining, contact |-> contact]

NoOutput == Decision("-", "", JsNull, JsNull, "")

\* JSON.parse(fs.readFileSync(STATE_FILE)) throws: no file, or not JSON
ReadThrows(f) == f.kind \in {"missing", "garbage"}

\* !state.pendingAlert || !state.alertSentAt
NoPendingAlert(f) == ~Truthy(f.pendingAlert) \/ ~Truthy(f.alertSentAt)

\* if (state.acknowledgedAt)
Acknowledged(f) == Truthy(f.acknowledgedAt)

\* elapsed = Date.now() - new Date(state.alertSentAt).getTime()
ElapsedFlippedMutant(f, t) == JsSub(DateGetTime(f.alertSentAt), JsNum(t))

Elapsed(f, t) == JsSub(JsNum(t), DateGetTime(f.alertSentAt))

\* elapsed >= ESCALATION_THRESHOLD_MS
ThresholdReachedLateMutant(elapsed) ==
    JsGeq(elapsed, JsNum(ESCALATION_THRESHOLD_MS + ESCALATION_THRESHOLD_MS \div 3))

ThresholdReachedGtMutant(elapsed) ==
    elapsed.t # "nan" /\ elapsed.n > ESCALATION_THRESHOLD_MS

ThresholdReached(elapsed) == JsGeq(elapsed, JsNum(ESCALATION_THRESHOLD_MS))

\* run() of escalation-check.js on the file content f at time t
Run(f, t) ==
    IF ReadThrows(f)
    THEN Decision("none", "no state file", JsNull, JsNull, "")
    ELSE IF f.kind = "jsonnull"
    THEN \* state is null: state.pendingAlert throws outside the try block
         Decision("TypeError", "", JsNull, JsNull, "")
    ELSE IF NoPendingAlert(f)
    THEN Decision("none", "no pending alert", JsNull, JsNull, "")
    ELSE IF Acknowledged(f)
    THEN Decision("none", "already acknowledged", JsNull, JsNull, "")
    ELSE LET elapsed == Elapsed(f, t)
             elapsedMinutes == MathRoundDiv(elapsed, 60000)
         IN  IF ThresholdReached(elapsed)
             THEN Decision("escalate", "", elapsedMinutes, JsNull, EMERGENCY_CONTACT)
             ELSE Decision("waiting", "", elapsedMinutes,
                           MathCeilDiv(JsSub(JsNum(ESCALATION_THRESHOLD_MS), elapsed), 60000), "")

\* escalated counts the runs that printed 'escalate', up to EscCap
Count(d) == IF d.action = "escalate" /\ escalated < EscCap THEN escalated + 1 ELSE escalated

\* one invocation of the script: reads the clock and the file, prints, writes nothing
PollForgetfulMutant ==
    /\ decision' = IF escalated > 0
                   THEN Decision("none", "already escalated", JsNull, JsNull, "")
                   ELSE Run(stateFile, now)
    /\ escalated' = Count(decision')
    /\ UNCHANGED <<now, stateFile>>
    /\ UNCHANGED <<safetyVars, selfVars, hostVars>>

PollMarksMutant ==
    /\ decision' = Run(stateFile, now)
    /\ escalated' = Count(decision')
    /\ stateFile' = IF decision'.action = "escalate"
                    THEN [stateFile EXCEPT !.acknowledgedAt = JsIso(now)]
                    ELSE stateFile
    /\ UNCHANGED now
    /\ UNCHANGED <<safetyVars, selfVars, hostVars>>

Poll ==
    /\ decision' = Run(stateFile, now)
    /\ escalated' = Count(decision')
    /\ UNCHANGED <<now, stateFile>>
    /\ UNCHANGED <<safetyVars, selfVars, hostVars>>

(***************************************************************************)
(* The surroundings of the escalation check: the clock, and the assistant  *)
(* that keeps safety-state.json (SKILL.md).                                *)
(***************************************************************************)
\* time passes; the output of the last run is no longer current
Tick ==
    /\ \E t \in TimePoints : t > now /\ now' = t
    /\ decision' = NoOutput
    /\ UNCHANGED <<stateFile, escalated>>
    /\ UNCHANGED <<safetyVars, selfVars, hostVars>>

\* the documented schedule (SKILL.md: "Escalation Check (every 10 min)"):
\* the check has run at the current instant and runs again no more than
\* POLL_INTERVAL_MS later
POLL_INTERVAL_MS == 10 * 60 * 1000

ScheduledTick ==
    /\ decision.action # "-"
    /\ \E t \in TimePoints : t > now /\ t - now <= POLL_INTERVAL_MS /\ now' = t
    /\ decision' = NoOutput
    /\ UNCHANGED <<stateFile, escalated>>
    /\ UNCHANGED <<safetyVars, selfVars, hostVars>>

\* the assistant records a new alert; it may or may not reset acknowledgedAt
RaiseAlert ==
    /\ now + ESCALATION_THRESHOLD_MS <= MaxNow
    /\ \E keepAck \in BOOLEAN :
          stateFile' = StateObject(JsText, JsIso(now),
                                   IF keepAck /\ stateFile.kind = "object"
                                   THEN stateFile.acknowledgedAt ELSE JsNull)
    /\ stateFile' # stateFile
    /\ decision' = NoOutput
    /\ escalated' = 0
    /\ UNCHANGED now
    /\ UNCHANGED <<safetyVars, selfVars, hostVars>>

\* the user answered: acknowledgedAt is set to the current time
Acknowledge ==
    /\ stateFile.kind = "object"
    /\ Truthy(stateFile.pendingAlert)
    /\ stateFile' = [stateFile EXCEPT !.acknowledgedAt = JsIso(now)]
    /\ stateFile' # stateFile
    /\ decision' = NoOutput
    /\ escalated' = 0
    /\ UNCHANGED now
    /\ UNCHANGED <<safetyVars, selfVars, hostVars>>

\* the assistant clears the record: an object without alert, or no file
ClearAlert ==
    /\ stateFile' \in {StateObject(JsNull, JsNull, JsNull), FileMissing}
    /\ stateFile' # stateFile
    /\ decision' = NoOutput
    /\ escalated' = 0
    /\ UNCHANGED now
    /\ UNCHANGED <<safetyVars, selfVars, hostVars>>

\* the file is damaged: not JSON, the literal null, an object whose
\* alertSentAt is no timestamp, or an object that lost its alertSentAt
CorruptState ==
    /\ stateFile' \in {FileGarbage, FileJsonNull,
                       StateObject(JsText, JsText, JsNull),
                       StateObject(JsText, JsNull, JsNull),
                       StateObject(JsEmpty, JsIso(0), JsNull)}
    /\ stateFile' # stateFile
    /\ decision' = NoOutput
    /\ escalated' = 0
    /\ UNCHANGED now
    /\ UNCHANGED <<safetyVars, selfVars, hostVars>>

(***************************************************************************)
(* safety-check.js: fetch and the four adapters                            *)
(***************************************************************************)
\* an upstream answer: the connection fails, hangs until the 10 s timeout,
\* or delivers a status code and a body
Response(net, status, body) == [net |-> net, status |-> status, body |-> body]

\* a settled promise
Resolved(v) == [settled |-> "fulfilled", value |-> v]

Rejected(msg) == [settled |-> "rejected", message |-> msg]

Unsettled == [settled |-> "pending"]

\* fetch(url) of safety-check.js: resolves with the body of a 2xx answer
fetch(resp) ==
    CASE resp.net = "error" -> Rejected("exception")
      [] resp.net = "timeout" -> Rejected("Timeout")
      [] resp.status >= 200 /\ resp.status < 300 -> Resolved(resp.body)
      [] OTHER -> Rejected("HTTP")

\* the CheckResult of the catch blocks: { source, ok: true, error, alerts: [] }
FailAlarmMutant(source, msg) ==
    [source |-> source, ok |-> FALSE, error |-> msg, alerts |-> <<>>]

FailOpen(source, msg) ==
    [source |-> source, ok |-> TRUE, error |-> msg, alerts |-> <<>>]

\* JSON bodies: text that is no JSON, the literal null, or an object
JsonGarbage == [json |-> "garbage"]

JsonNull == [json |-> "null"]

\* JSON.parse(body) throws, or reading a property of the null it returned throws
ParseThrows(body) == body.json \in {"garbage", "null"}

\* data.features || []
Features(data) == IF data.hasFeatures THEN data.features ELSE <<>>

\* f.properties is undefined for some feature: f.properties.x throws
SomeFeatureLacksProperties(fs) == \E i \in 1..Len(fs) : ~fs[i].hasProps

\* the features of a GeoJSON answer, as the adapters read them
NwsFeature(event, severity) == [hasProps |-> TRUE, event |-> event, severity |-> severity]

QuakeFeature(mag10, timeValid) == [hasProps |-> TRUE, mag10 |-> mag10, timeValid |-> timeValid]

BareFeature == [hasProps |-> FALSE]

GeoJson(fs) == [json |-> "object", hasFeatures |-> TRUE, features |-> fs]

EmptyObject == [json |-> "object", hasFeatures |-> FALSE, hasCurrent |-> FALSE]

AirJson(aqi) == [json |-> "object", hasFeatures |-> FALSE, hasCurrent |-> TRUE, us_aqi |-> aqi]

\* an adapter as an async function: it settles with a CheckResult, or rejects
\* when an exception leaves it
\* checkNWSAlerts
checkNWSAlertsNoCatchMutant(resp) ==
    LET r == fetch(resp) IN
    IF r.settled = "rejected" THEN Rejected(r.message)
    ELSE IF ParseThrows(r.value) \/ SomeFeatureLacksProperties(Features(r.value))
    THEN Rejected("exception")
    ELSE LET fs == Features(r.value)
             alerts == [i \in 1..Len(fs) |-> [event |-> fs[i].event, severity |-> fs[i].severity]]
         IN  Resolved([source |-> "NWS", ok |-> Len(alerts) = 0, alerts |-> alerts])

checkNWSAlerts(resp) ==
    LET r == fetch(resp) IN
    IF r.settled = "rejected" THEN Resolved(FailOpen("NWS", r.message))
    ELSE IF ParseThrows(r.value) \/ SomeFeatureLacksProperties(Features(r.value))
    THEN Resolved(FailOpen("NWS", "exception"))
    ELSE LET fs == Features(r.value)
             alerts == [i \in 1..Len(fs) |-> [event |-> fs[i].event, severity |-> fs[i].severity]]
         IN  Resolved([source |-> "NWS", ok |-> Len(alerts) = 0, alerts |-> alerts])

\* checkEarthquakes: magnitude >= 2.5 (mag10 is the magnitude times ten);
\* new Date(time).toISOString() throws on an invalid time
Notable(f) == f.mag10 >= 25

checkEarthquakes(resp) ==
    LET r == fetch(resp) IN
    IF r.settled = "rejected" THEN Resolved(FailOpen("USGS", r.message))
    ELSE IF ParseThrows(r.value) \/ SomeFeatureLacksProperties(Features(r.value))
    THEN Resolved(FailOpen("USGS", "exception"))
    ELSE LET kept == SelectSeq(Features(r.value), Notable)
         IN  IF \E i \in 1..Len(kept) : ~kept[i].timeValid
             THEN Resolved(FailOpen("USGS", "exception"))
             ELSE LET quakes == [i \in 1..Len(kept) |-> [magnitude10 |-> kept[i].mag10]]
                  IN  Resolved([source |-> "USGS", ok |-> Len(quakes) = 0, alerts |-> quakes])

\* checkAirQuality: aqi = data.current?.us_aqi || 0
AqiOf(data) == IF data.hasCurrent /\ Truthy(data.us_aqi) THEN data.us_aqi.n ELSE 0

AqiLevel(aqi) ==
    IF aqi > 150 THEN "Unhealthy"
    ELSE IF aqi > 100 THEN "Unhealthy for Sensitive Groups"
    ELSE IF aqi > 50 THEN "Moderate"
    ELSE "Good"

AqiConcernFromHundredMutant(aqi) == aqi >= 100

AqiConcern(aqi) == aqi > 100

checkAirQuality(resp) ==
    LET r == fetch(resp) IN
    IF r.settled = "rejected" THEN Resolved(FailOpen("AirQuality", r.message))
    ELSE IF ParseThrows(r.value)
    THEN Resolved(FailOpen("AirQuality", "exception"))
    ELSE LET aqi == AqiOf(r.value)
             level == AqiLevel(aqi)
             concern == AqiConcern(aqi)
         IN  Resolved([source |-> "AirQuality", ok |-> ~concern,
                       alerts |-> IF concern THEN <<[aqi |-> aqi, level |-> level]>> ELSE <<>>,
                       current |-> [aqi |-> aqi, level |-> level]])

(***************************************************************************)
(* safety-check.js: the local-news adapter                                 *)
(***************************************************************************)
\* CONFIG.monitoring.newsFeeds of the default configuration
NumFeeds == 2

\* items.slice(0, 15)
ItemsPerFeed == 15

\* (Date.now() - pubTime) < 86400000
RecentMs == 86400000

\* unique.slice(0, 5)
NewsCap == 5

\* A title is its first 50 characters in lower case (head), the way those
\* characters are capitalised (caps) and what follows them (tail).
Title(head, caps, tail) == [head |-> head, caps |-> caps, tail |-> tail]

\* a.title.slice(0, 50).toLowerCase()
DedupeKeyExactCaseMutant(title) == <<title.head, title.caps>>

DedupeKey(title) == <<title.head, 0>>

\* an <item> of a feed: its title, whether title + description contain a
\* concerning, a location and an exclude keyword, and its <pubDate>
Item(title, concerning, isLocal, historical, pubDate) ==
    [title |-> title, concerning |-> concerning, isLocal |-> isLocal,
     historical |-> historical, pubDate |-> pubDate]

\* the body of a feed: the <item> elements the regular expression finds
Feed(items) == [items |-> items]

\* a - b < c on numbers; false if either is NaN
JsLt(a, b) == a.t # "nan" /\ b.t # "nan" /\ a.n < b.n

\* isRecent
IsRecent(item, t) == JsLt(JsSub(JsNum(t), DateGetTime(item.pubDate)), JsNum(RecentMs))

\* isConcerning && isLocal && isRecent && !isHistorical
Surfaces(item, t) ==
    item.concerning /\ item.isLocal /\ IsRecent(item, t) /\ ~item.historical

\* sq.slice(0, k)
Slice0(sq, k) == SubSeq(sq, 1, IF Len(sq) < k THEN Len(sq) ELSE k)

\* the alerts one feed contributes, in feed order; none if its fetch fails
RECURSIVE FeedAlertsFrom(_, _, _, _)
FeedAlertsFrom(items, i, feed, t) ==
    IF i > Len(items) THEN <<>>
    ELSE (IF Surfaces(items[i], t)
          THEN <<[title |-> items[i].title, feed |-> feed,
                  age |-> MathRoundDiv(JsSub(JsNum(t), DateGetTime(items[i].pubDate)), 3600000)]>>
          ELSE <<>>) \o FeedAlertsFrom(items, i + 1, feed, t)

FeedAlerts(resp, feed, t) ==
    LET r == fetch(resp) IN
    IF r.settled = "rejected" THEN <<>>
    ELSE FeedAlertsFrom(Slice0(r.value.items, ItemsPerFeed), 1, feed, t)

RECURSIVE AllFeedAlertsStopAtFailureMutant(_, _, _)
AllFeedAlertsStopAtFailureMutant(resps, i, t) ==
    IF i > Len(resps) \/ fetch(resps[i]).settled = "rejected" THEN <<>>
    ELSE FeedAlerts(resps[i], i, t) \o AllFeedAlertsStopAtFailureMutant(resps, i + 1, t)

RECURSIVE AllFeedAlerts(_, _, _)
AllFeedAlerts(resps, i, t) ==
    IF i > Len(resps) THEN <<>>
    ELSE FeedAlerts(resps[i], i, t) \o AllFeedAlerts(resps, i + 1, t)

\* alerts.filter(a => !seen.has(key) ...): the first alert of every key
RECURSIVE Dedupe(_, _)
Dedupe(alerts, seen) ==
    IF alerts = <<>> THEN <<>>
    ELSE LET key == DedupeKey(alerts[1].title)
         IN  IF key \in seen THEN Dedupe(Tail(alerts), seen)
             ELSE <<alerts[1]>> \o Dedupe(Tail(alerts), seen \cup {key})

checkLocalNewsClearAfterCapMutant(resps, t) ==
    LET unique == Dedupe(AllFeedAlerts(resps, 1, t), {})
    IN  Resolved([source |-> "LocalNews", ok |-> Len(unique) <= NewsCap,
                  alerts |-> unique])

\* checkLocalNews: resps are the answers of the configured feeds, in order
checkLocalNews(resps, t) ==
    LET unique == Dedupe(AllFeedAlerts(resps, 1, t), {})
    IN  Resolved([source |-> "LocalNews", ok |-> Len(unique) = 0,
                  alerts |-> Slice0(unique, NewsCap)])

(***************************************************************************)
(* test-scenarios.js and test-override.json                                *)
(***************************************************************************)
\* Date.now() + 3600000
OVERRIDE_TTL_MS == 3600000

ScenarioNames == {"weather", "earthquake", "aqi", "news", "disk", "memory"}

\* const scenarios = { ... }
Scenario(name) ==
    CASE name = "weather" ->
            [source |-> "NWS", ok |-> FALSE,
             alerts |-> <<[event |-> "Severe Thunderstorm Warning", severity |-> "Severe"]>>]
      [] name = "earthquake" ->
            [source |-> "USGS", ok |-> FALSE, alerts |-> <<[magnitude10 |-> 52]>>]
      [] name = "aqi" ->
            [source |-> "AirQuality", ok |-> FALSE,
             alerts |-> <<[aqi |-> 175, level |-> "Unhealthy"]>>,
             current |-> [aqi |-> 175, level |-> "Unhealthy"]]
      [] name = "news" ->
            [source |-> "LocalNews", ok |-> FALSE,
             alerts |-> <<[title |-> Title("test: structure fire reported near overlake", 1, 1),
                           feed |-> 0, age |-> JsText]>>]
      [] name = "disk" ->
            [source |-> "System", ok |-> FALSE,
             alerts |-> <<[type |-> "disk", severity |-> "critical"]>>]
      [] name = "memory" ->
            [source |-> "System", ok |-> FALSE,
             alerts |-> <<[type |-> "memory", severity |-> "warning"]>>]

\* the key of the override a scenario is stored under
ScenarioKeyByNameMutant(name) == name

ScenarioKey(name) ==
    CASE name = "weather" -> "nws"
      [] name = "earthquake" -> "usgs"
      [] name = "aqi" -> "aqi"
      [] name = "news" -> "news"
      [] name = "disk" -> "system"
      [] name = "memory" -> "system"

OverrideKeys == {"nws", "usgs", "aqi", "news", "system"}

\* names for which scenarios[scenario] is truthy although scenarios has no
\* such scenario: the properties every object inherits
InheritedNames == {"constructor", "toString"}

\* a key the override object does not have
NoSub == [absent |-> TRUE]

HasSub(o, key) == "absent" \notin DOMAIN o.subs[key]

\* test-override.json: no file, or the object the injector wrote
OverrideNone ==
    [kind |-> "missing", scenario |-> "", subs |-> [k \in OverrideKeys |-> NoSub],
     expiresAt |-> JsNull]

\* the override object test-scenarios.js writes for a scenario at time t
InjectorWrites(scenario, t) ==
    [kind |-> "object", scenario |-> scenario,
     subs |-> IF scenario = "all"
              THEN [k \in OverrideKeys |->
                      CASE k = "nws" -> Scenario("weather")
                        [] k = "usgs" -> Scenario("earthquake")
                        [] k = "aqi" -> Scenario("aqi")
                        [] k = "news" -> Scenario("news")
                        [] OTHER -> NoSub]
              ELSE [k \in OverrideKeys |->
                      IF scenario \in ScenarioNames /\ k = ScenarioKey(scenario)
                      THEN Scenario(scenario) ELSE NoSub],
     expiresAt |-> JsIso(t + OVERRIDE_TTL_MS)]

\* test-scenarios.js has not been run
InjectorIdle == [scenario |-> "", exit |-> 0]

\* override._expiresAt && new Date(override._expiresAt) < new Date()
ExpiredFlippedMutant(o, t) == Truthy(o.expiresAt) /\ JsLt(JsNum(t), DateGetTime(o.expiresAt))

Expired(o, t) == Truthy(o.expiresAt) /\ JsLt(DateGetTime(o.expiresAt), JsNum(t))

\* getTestOverride(): the override in force, or null (OverrideNone)
getTestOverride(file, t) ==
    IF file.kind # "object" THEN OverrideNone
    ELSE IF Expired(file, t) THEN OverrideNone
    ELSE file

\* ... and what it leaves of the file: an expired override is unlinked
FileAfterGetTestOverride(file, t) ==
    IF file.kind = "object" /\ Expired(file, t) THEN OverrideNone ELSE file

\* test-override.json holding text that is no JSON
OverrideGarbage ==
    [kind |-> "garbage", scenario |-> "", subs |-> [k \in OverrideKeys |-> NoSub],
     expiresAt |-> JsNull]

\* test-scenarios.js whose 'clear' lets the error of unlinkSync escape when
\* there is no file
TestScenariosClearThrowsMutant(args) ==
    /\ \E arg \in args :
          IF arg = "clear" /\ overrideFile # OverrideNone THEN
             /\ injector' = [scenario |-> arg, exit |-> 0]
             /\ overrideFile' = OverrideNone
          ELSE IF arg = "all" \/ arg \in ScenarioNames \/ arg \in InheritedNames THEN
             /\ injector' = [scenario |-> arg, exit |-> 0]
             /\ overrideFile' = InjectorWrites(arg, now)
          ELSE
             /\ injector' = [scenario |-> arg, exit |-> 1]
             /\ UNCHANGED overrideFile
    /\ UNCHANGED <<now, locationFile, logs, run, emitted>>
    /\ UNCHANGED <<escVars, selfVars, hostVars>>

\* one run of test-scenarios.js with the argument arg ("" for none): usage
\* and exit 1 without an argument, 'clear' unlinks the file (exit 0 whether
\* or not there was one), a scenario or 'all' writes the override, and so
\* does the name of an inherited property, for which override[key] is a
\* function that JSON.stringify leaves out; anything else is an unknown
\* scenario (exit 1)
TestScenarios(args) ==
    /\ \E arg \in args :
          IF arg = "" THEN
             /\ injector' = [scenario |-> arg, exit |-> 1]
             /\ UNCHANGED overrideFile
          ELSE IF arg = "clear" THEN
             /\ injector' = [scenario |-> arg, exit |-> 0]
             /\ overrideFile' = OverrideNone
          ELSE IF arg = "all" \/ arg \in ScenarioNames \/ arg \in InheritedNames THEN
             /\ injector' = [scenario |-> arg, exit |-> 0]
             /\ overrideFile' = InjectorWrites(arg, now)
          ELSE
             /\ injector' = [scenario |-> arg, exit |-> 1]
             /\ UNCHANGED overrideFile
    /\ UNCHANGED <<now, locationFile, logs, run, emitted>>
    /\ UNCHANGED <<escVars, selfVars, hostVars>>

(***************************************************************************)
(* safety-check.js: runSafetyCheck                                         *)
(***************************************************************************)
\* location.json: no file, or an object with lat and lon
LocationMissing == [kind |-> "missing", lat |-> JsNull, lon |-> JsNull]

LocationObject(lat, lon) == [kind |-> "object", lat |-> lat, lon |-> lon]

\* !location || !location.lat || !location.lon
NoLocation(file) ==
    file.kind # "object" \/ ~Truthy(file.lat) \/ ~Truthy(file.lon)

Sources == {"nws", "usgs", "aqi", "news"}

NoReport == [absent |-> TRUE]

ErrorResult(t) == [error |-> "No location data available", timestamp |-> t]

\* if (testOverride.x) x = testOverride.x
MergedFieldwiseMutant(own, override, key) ==
    IF override.kind = "object" /\ HasSub(override, key)
    THEN [f \in DOMAIN own \cup DOMAIN override.subs[key] |->
            IF f \in DOMAIN override.subs[key] THEN override.subs[key][f] ELSE own[f]]
    ELSE own

Merged(own, override, key) ==
    IF override.kind = "object" /\ HasSub(override, key) THEN override.subs[key] ELSE own

\* nws.ok && usgs.ok && aqi.ok && news.ok
AllClearAnyMutant(checks) == \E k \in Sources : checks[k].ok

AllClear(checks) == \A k \in Sources : checks[k].ok

\* the result object of a completed run
Report(checks, location, t) ==
    [timestamp |-> t,
     location |-> [lat |-> location.lat, lon |-> location.lon],
     status |-> IF AllClear(checks) THEN "ALL_CLEAR" ELSE "ALERTS_FOUND",
     checks |-> checks]

\* the log file name: the ISO time cut to seconds
LogName(t) == t \div 1000

\* the process before runSafetyCheck() is called
RunIdle ==
    [pc |-> "idle", location |-> LocationMissing, testOverride |-> OverrideNone,
     res |-> [k \in Sources |-> Unsettled],
     upstream |-> [k \in Sources |-> "pending"],
     returned |-> NoReport, printed |-> NoReport, exit |-> 0]

\* runSafetyCheck up to Promise.all: reads the location and the override
StartRun ==
    /\ run.pc = "idle"
    /\ IF NoLocation(locationFile)
       THEN /\ run' = [run EXCEPT !.pc = "done", !.returned = ErrorResult(now)]
            /\ UNCHANGED overrideFile
       ELSE /\ run' = [run EXCEPT !.pc = "fetching", !.location = locationFile,
                                  !.testOverride = getTestOverride(overrideFile, now)]
            /\ overrideFile' = FileAfterGetTestOverride(overrideFile, now)
    /\ UNCHANGED <<now, locationFile, logs, emitted, injector>>
    /\ UNCHANGED <<escVars, selfVars, hostVars>>

\* what the upstream of an adapter did, as the run observed it: "failed" (no
\* connection, timeout, non-2xx status, or a body that is no JSON),
\* "malformed" (JSON of an unexpected shape) or "ok"
UpstreamClass(resp) ==
    IF resp.net # "ok" \/ resp.status < 200 \/ resp.status >= 300 \/ resp.body.json = "garbage"
    THEN "failed"
    ELSE IF resp.body.json = "null" THEN "malformed"
    ELSE IF resp.body.hasFeatures
            /\ \E i \in 1..Len(resp.body.features) :
                  \/ ~resp.body.features[i].hasProps
                  \/ /\ "timeValid" \in DOMAIN resp.body.features[i]
                     /\ ~resp.body.features[i].timeValid
    THEN "malformed"
    ELSE "ok"

\* for the news adapter: "failed" when no feed could be fetched, "partial"
\* when some but not all of them could
FeedsClass(resps) ==
    LET failed == {i \in 1..Len(resps) :
                      resps[i].net # "ok" \/ resps[i].status < 200 \/ resps[i].status >= 300}
    IN  IF failed = 1..Len(resps) THEN "failed"
        ELSE IF failed # {} THEN "partial"
        ELSE "ok"

\* results collected in the order the adapters complete
SettleByArrivalMutant(key, class, outcome) ==
    /\ run.pc = "fetching"
    /\ run.upstream[key] = "pending"
    /\ LET slot == CASE run.res.nws.settled = "pending" -> "nws"
                      [] run.res.usgs.settled = "pending" -> "usgs"
                      [] run.res.aqi.settled = "pending" -> "aqi"
                      [] OTHER -> "news"
       IN  run' = [run EXCEPT !.res[slot] = outcome, !.upstream[key] = class]
    /\ UNCHANGED <<now, locationFile, overrideFile, logs, emitted, injector>>
    /\ UNCHANGED <<escVars, selfVars, hostVars>>

\* one adapter settles
Settle(key, class, outcome) ==
    /\ run.pc = "fetching"
    /\ run.res[key].settled = "pending"
    /\ run' = [run EXCEPT !.res[key] = outcome, !.upstream[key] = class]
    /\ UNCHANGED <<now, locationFile, overrideFile, logs, emitted, injector>>
    /\ UNCHANGED <<escVars, selfVars, hostVars>>

CompleteNWS(responses) ==
    \E r \in responses : Settle("nws", UpstreamClass(r), checkNWSAlerts(r))

CompleteUSGS(responses) ==
    \E r \in responses : Settle("usgs", UpstreamClass(r), checkEarthquakes(r))

CompleteAQI(responses) ==
    \E r \in responses : Settle("aqi", UpstreamClass(r), checkAirQuality(r))

CompleteNews(responses) ==
    \E rs \in [1..NumFeeds -> responses] :
        Settle("news", FeedsClass(rs), checkLocalNews(rs, now))

\* a request that timed out is never given up: the run waits for it
IsTimeout(r) ==
    r.settled = "fulfilled" /\ "error" \in DOMAIN r.value /\ r.value.error = "Timeout"

FinishRunWaitsForTimedOutMutant ==
    /\ run.pc = "fetching"
    /\ \A k \in Sources : run.res[k].settled # "pending"
    /\ \A k \in Sources :
          ~(IsTimeout(run.res[k]))
    /\ IF \E k \in Sources : run.res[k].settled = "rejected"
       THEN /\ run' = [run EXCEPT !.pc = "done", !.exit = 1]
            /\ UNCHANGED <<logs, emitted>>
       ELSE LET checks == [k \in Sources |->
                             Merged(run.res[k].value, run.testOverride, k)]
                result == Report(checks, run.location, now)
            IN  /\ logs' = [n \in DOMAIN logs \cup {LogName(now)} |->
                              IF n = LogName(now) THEN result ELSE logs[n]]
                /\ run' = [run EXCEPT !.pc = "done", !.returned = result,
                                      !.printed = result]
                /\ emitted' = Append(emitted, result)
    /\ UNCHANGED <<now, locationFile, overrideFile, injector>>
    /\ UNCHANGED <<escVars, selfVars, hostVars>>

\* runSafetyCheck after Promise.all: overrides, status, log file, output.
\* A rejected adapter rejects Promise.all: 'Safety check failed', exit 1.
FinishRun ==
    /\ run.pc = "fetching"
    /\ \A k \in Sources : run.res[k].settled # "pending"
    /\ IF \E k \in Sources : run.res[k].settled = "rejected"
       THEN /\ run' = [run EXCEPT !.pc = "done", !.exit = 1]
            /\ UNCHANGED <<logs, emitted>>
       ELSE LET checks == [k \in Sources |->
                             Merged(run.res[k].value, run.testOverride, k)]
                result == Report(checks, run.location, now)
            IN  /\ logs' = [n \in DOMAIN logs \cup {LogName(now)} |->
                              IF n = LogName(now) THEN result ELSE logs[n]]
                /\ run' = [run EXCEPT !.pc = "done", !.returned = result,
                                      !.printed = result]
                /\ emitted' = Append(emitted, result)
    /\ UNCHANGED <<now, locationFile, overrideFile, injector>>
    /\ UNCHANGED <<escVars, selfVars, hostVars>>

\* safety-check.js is started again (by the schedule or by hand) after the
\* previous process has ended; at most MaxRuns reports are followed
MaxRuns == 2

NewProcess ==
    /\ run.pc = "done"
    /\ Len(emitted) < MaxRuns
    /\ run' = RunIdle
    /\ UNCHANGED <<now, locationFile, overrideFile, logs, emitted, injector>>
    /\ UNCHANGED <<escVars, selfVars, hostVars>>

\* time passes between the steps of the scripts
Elapse(times) ==
    /\ \E t \in times : t > now /\ now' = t
    /\ UNCHANGED <<escVars, safetyVars, selfVars, hostVars>>

(***************************************************************************)
(* self-check.js                                                           *)
(***************************************************************************)
\* fetch(url) of self-check.js: resolves with the body whatever the status
selfFetch(resp) ==
    CASE resp.net = "error" -> Rejected("exception")
      [] resp.net = "timeout" -> Rejected("Timeout")
      [] OTHER -> Resolved(resp.body)

\* what a probe command gave: execSync throws, or prints text in which the
\* regular expression finds a number or nothing
ProbeThrows == [ran |-> FALSE, matched |-> FALSE, value |-> 0]

ProbeNoMatch == [ran |-> TRUE, matched |-> FALSE, value |-> 0]

Probe(v) == [ran |-> TRUE, matched |-> TRUE, value |-> v]

\* match ? parse(match[1]) : fallback
Reading(probe, fallback) == IF probe.matched THEN probe.value ELSE fallback

SystemAlert(type, severity) == [type |-> type, severity |-> severity]

\* the memory sub-check: memFree < 20 critical, < 40 warning
MemoryAlerts(probe) ==
    IF ~probe.ran THEN <<>>
    ELSE LET memFree == Reading(probe, 100) IN
         IF memFree < 20 THEN <<SystemAlert("memory", "critical")>>
         ELSE IF memFree < 40 THEN <<SystemAlert("memory", "warning")>>
         ELSE <<>>

DiskAlertsNoElseMutant(probe) ==
    IF ~probe.ran THEN <<>>
    ELSE LET diskUsed == Reading(probe, 0) IN
         (IF diskUsed > 95 THEN <<SystemAlert("disk", "critical")>> ELSE <<>>)
         \o (IF diskUsed > 85 THEN <<SystemAlert("disk", "warning")>> ELSE <<>>)

\* the disk sub-check: diskUsed > 95 critical, > 85 warning
DiskAlerts(probe) ==
    IF ~probe.ran THEN <<>>
    ELSE LET diskUsed == Reading(probe, 0) IN
         IF diskUsed > 95 THEN <<SystemAlert("disk", "critical")>>
         ELSE IF diskUsed > 85 THEN <<SystemAlert("disk", "warning")>>
         ELSE <<>>

\* the temperature sub-check: temp > 95 critical, > 85 warning
TemperatureAlerts(probe) ==
    IF ~probe.ran THEN <<>>
    ELSE LET temp == Reading(probe, 50) IN
         IF temp > 95 THEN <<SystemAlert("temperature", "critical")>>
         ELSE IF temp > 85 THEN <<SystemAlert("temperature", "warning")>>
         ELSE <<>>

\* the uptime sub-check: days > 30 info
UptimeAlerts(probe) ==
    IF ~probe.ran THEN <<>>
    ELSE IF Reading(probe, 0) > 30 THEN <<SystemAlert("uptime", "info")>>
    ELSE <<>>

\* alerts.filter(a => a.severity !== 'info').length === 0
NoneAboveInfo(alerts) == \A i \in 1..Len(alerts) : alerts[i].severity = "info"

\* checkSystemHealth
checkSystemHealth(mem, disk, temp, up) ==
    LET alerts == MemoryAlerts(mem) \o DiskAlerts(disk) \o TemperatureAlerts(temp)
                  \o UptimeAlerts(up)
    IN  [source |-> "System", ok |-> NoneAboveInfo(alerts), alerts |-> alerts]

\* props.severity.toLowerCase()
ToLowerCase(str) ==
    CASE str = "Extreme" -> "extreme"
      [] str = "Severe" -> "severe"
      [] str = "Moderate" -> "moderate"
      [] str = "Minor" -> "minor"
      [] OTHER -> str

\* the weather part of checkEnvironmentalThreats: the loop pushes an alert for
\* every Extreme or Severe feature until reading a feature throws; a failed
\* fetch or parse pushes nothing
RECURSIVE WeatherLoop(_, _)
WeatherLoop(fs, i) ==
    IF i > Len(fs) \/ ~fs[i].hasProps THEN <<>>
    ELSE (IF fs[i].severity \in {"Extreme", "Severe"}
          THEN <<SystemAlert("weather", ToLowerCase(fs[i].severity))>>
          ELSE <<>>) \o WeatherLoop(fs, i + 1)

WeatherAlerts(resp) ==
    LET r == selfFetch(resp) IN
    IF r.settled = "rejected" \/ ParseThrows(r.value) THEN <<>>
    ELSE WeatherLoop(Features(r.value), 1)

\* the earthquake part: mag >= 5 is critical, anything else a warning
RECURSIVE QuakeLoop(_, _)
QuakeLoop(fs, i) ==
    IF i > Len(fs) \/ ~fs[i].hasProps THEN <<>>
    ELSE <<SystemAlert("earthquake", IF fs[i].mag10 >= 50 THEN "critical" ELSE "warning")>>
         \o QuakeLoop(fs, i + 1)

QuakeAlerts(resp) ==
    LET r == selfFetch(resp) IN
    IF r.settled = "rejected" \/ ParseThrows(r.value) THEN <<>>
    ELSE QuakeLoop(Features(r.value), 1)

\* checkEnvironmentalThreats
checkEnvironmentalThreatsWeatherOnlyMutant(nwsResp, usgsResp) ==
    LET alerts == WeatherAlerts(nwsResp) \o QuakeAlerts(usgsResp)
    IN  Resolved([source |-> "Environmental", ok |-> Len(WeatherAlerts(nwsResp)) = 0,
                  alerts |-> alerts])

checkEnvironmentalThreats(nwsResp, usgsResp) ==
    LET alerts == WeatherAlerts(nwsResp) \o QuakeAlerts(usgsResp)
    IN  Resolved([source |-> "Environmental", ok |-> Len(alerts) = 0, alerts |-> alerts])

\* `tailscale status --json || echo "{}"`: the BackendState of the output
\* ("" when it has none), or output that is no JSON
TailscaleAlerts(ts) ==
    IF ts # "not json" /\ ts # "" /\ ts # "Running"
    THEN <<SystemAlert("network", "warning")>>
    ELSE <<>>

\* the connectivity probe: await fetch('https://api.weather.gov/')
ConnectivityAlertsSilentMutant(resp) == <<>>

ConnectivityAlerts(resp) ==
    IF selfFetch(resp).settled = "rejected"
    THEN <<SystemAlert("network", "critical")>>
    ELSE <<>>

\* checkConnectivity
checkConnectivity(ts, resp) ==
    LET alerts == TailscaleAlerts(ts) \o ConnectivityAlerts(resp)
    IN  Resolved([source |-> "Network", ok |-> Len(alerts) = 0, alerts |-> alerts])

SelfSources == {"system", "environment", "network"}

\* alerts.filter(a => a.severity === 'critical')
Criticals(alerts) == {i \in 1..Len(alerts) : alerts[i].severity = "critical"}

\* the status of runSelfCheck
SelfStatusNoCriticalMutant(checks) ==
    IF \A k \in SelfSources : checks[k].ok THEN "ALL_CLEAR" ELSE "WARNINGS"

SelfStatus(checks) ==
    IF \E k \in SelfSources : Criticals(checks[k].alerts) # {} THEN "CRITICAL"
    ELSE IF \A k \in SelfSources : checks[k].ok THEN "ALL_CLEAR"
    ELSE "WARNINGS"

\* the process before runSelfCheck() is called; probes and upstream record
\* what the commands and the upstream calls of the run did
SelfIdle ==
    [pc |-> "idle",
     res |-> [k \in SelfSources |-> Unsettled],
     probes |-> [p \in {"memory", "disk", "temperature", "uptime"} |-> "pending"],
     upstream |-> [u \in {"weather", "quakes", "connectivity"} |-> "pending"],
     printed |-> NoReport, exit |-> 0]

\* what an upstream call of the self-check did: "failed" when it errors or
\* times out, "malformed" when the answer cannot be read, else "ok"
SelfUpstreamClass(resp) ==
    IF resp.net # "ok" THEN "failed"
    ELSE IF resp.body.json \in {"garbage", "null"} THEN "malformed"
    ELSE IF resp.body.hasFeatures
            /\ \E i \in 1..Len(resp.body.features) : ~resp.body.features[i].hasProps
    THEN "malformed"
    ELSE "ok"

ProbeClass(probe) == IF probe.ran THEN "ok" ELSE "failed"

\* runSelfCheck up to Promise.all: reads my-location.json (a file holding
\* null makes the destructuring throw) and runs checkSystemHealth
SelfStart(memProbes, diskProbes, tempProbes, upProbes) ==
    /\ self.pc = "idle"
    /\ IF myLocationFile.kind \in {"missing", "garbage"}
       THEN self' = [self EXCEPT !.pc = "done"]
       ELSE IF myLocationFile.kind = "jsonnull"
       THEN self' = [self EXCEPT !.pc = "done", !.exit = 1]
       ELSE \E mem \in memProbes, disk \in diskProbes, temp \in tempProbes, up \in upProbes :
               self' = [self EXCEPT
                          !.pc = "fetching",
                          !.res.system = Resolved(checkSystemHealth(mem, disk, temp, up)),
                          !.probes = [p \in DOMAIN self.probes |->
                                        CASE p = "memory" -> ProbeClass(mem)
                                          [] p = "disk" -> ProbeClass(disk)
                                          [] p = "temperature" -> ProbeClass(temp)
                                          [] p = "uptime" -> ProbeClass(up)]]
    /\ UNCHANGED <<now, myLocationFile>>
    /\ UNCHANGED <<escVars, safetyVars, hostVars>>

\* checkEnvironmentalThreats settles
CompleteEnvironment(nwsResponses, usgsResponses) ==
    /\ self.pc = "fetching"
    /\ self.res.environment.settled = "pending"
    /\ \E w \in nwsResponses, q \in usgsResponses :
          self' = [self EXCEPT !.res.environment = checkEnvironmentalThreats(w, q),
                               !.upstream.weather = SelfUpstreamClass(w),
                               !.upstream.quakes = SelfUpstreamClass(q)]
    /\ UNCHANGED <<now, myLocationFile>>
    /\ UNCHANGED <<escVars, safetyVars, hostVars>>

\* checkConnectivity settles
CompleteNetwork(tailscaleStates, responses) ==
    /\ self.pc = "fetching"
    /\ self.res.network.settled = "pending"
    /\ \E ts \in tailscaleStates, r \in responses :
          self' = [self EXCEPT !.res.network = checkConnectivity(ts, r),
                               !.upstream.connectivity = SelfUpstreamClass(r)]
    /\ UNCHANGED <<now, myLocationFile>>
    /\ UNCHANGED <<escVars, safetyVars, hostVars>>

\* runSelfCheck after Promise.all: status and output
SelfFinish ==
    /\ self.pc = "fetching"
    /\ \A k \in SelfSources : self.res[k].settled = "fulfilled"
    /\ LET checks == [k \in SelfSources |-> self.res[k].value]
       IN  self' = [self EXCEPT !.pc = "done",
                                !.printed = [status |-> SelfStatus(checks), checks |-> checks]]
    /\ UNCHANGED <<now, myLocationFile>>
    /\ UNCHANGED <<escVars, safetyVars, hostVars>>

(***************************************************************************)
(* setup.js: the configuration the user enters                             *)
(***************************************************************************)
\* config.json: no file, or the object setup wrote; emergencyContact is the
\* e-mail address entered, "" when the step was skipped
ConfigMissing == [kind |-> "missing", emergencyContact |-> ""]

Config(contact) == [kind |-> "object", emergencyContact |-> contact]

\* interactiveSetup: asks for the emergency contact and saves config.json
Setup(contacts) ==
    /\ \E c \in contacts : configFile' = Config(c)
    /\ decision' = NoOutput
    /\ UNCHANGED <<now, stateFile, escalated, web>>
    /\ UNCHANGED <<safetyVars, selfVars>>

(***************************************************************************)
(* server.js: the location webhook                                         *)
(***************************************************************************)
SECRET_KEY == "secret"

\* a || b
JsOr(a, b) == IF Truthy(a) THEN a ELSE b

\* data.lat || data.Lat || data.latitude || data.Latitude
JsOrChain(vs) == JsOr(vs[1], JsOr(vs[2], JsOr(vs[3], vs[4])))

\* a request: method, path, the key parameter ("" when there is none) and
\* the body
Request(method, path, key, body) ==
    [method |-> method, path |-> path, key |-> key, body |-> body]

\* a JSON object body: _type ("" when absent), the four spellings of the
\* latitude and of the longitude, and whether tst makes a valid date
Payload(type, lats, lons, tstValid) ==
    [json |-> "object", type |-> type, lats |-> lats, lons |-> lons, tstValid |-> tstValid]

\* the record POST /location writes at time t
StoredLocation(data, t) ==
    [kind |-> "object", lat |-> JsOrChain(data.lats), lon |-> JsOrChain(data.lons),
     receivedAt |-> t]

Reply(status, body, location) == [status |-> status, body |-> body, location |-> location]

\* the server has started and has had no request
WebIdle ==
    [request |-> Request("", "", "", [json |-> "none"]),
     reply |-> Reply(0, "", LocationMissing), accepted |-> LocationMissing]

\* JSON.parse(body) throws, or reading data._type or building the timestamp does
BodyThrows(body) ==
    \/ body.json \in {"garbage", "null"}
    \/ body.json = "object" /\ body.type \in {"", "location"} /\ ~body.tstValid

\* the reply of the request handler to req with the stored location file
Respond(req, file, t) ==
    IF req.method = "OPTIONS" THEN Reply(204, "", LocationMissing)
    ELSE IF req.path = "/health" THEN Reply(200, "status ok", LocationMissing)
    ELSE IF req.method = "GET" /\ req.path = "/location" THEN
         IF req.key # SECRET_KEY THEN Reply(401, "unauthorized", LocationMissing)
         ELSE IF file.kind = "missing" THEN Reply(404, "no location data", LocationMissing)
         ELSE Reply(200, "data", file)
    ELSE IF req.method = "POST" /\ req.path = "/location" THEN
         IF req.key # SECRET_KEY THEN Reply(401, "unauthorized", LocationMissing)
         ELSE IF BodyThrows(req.body) THEN Reply(400, "invalid json", LocationMissing)
         ELSE IF req.body.type \notin {"", "location"}
         THEN Reply(200, "skipped", LocationMissing)
         ELSE Reply(200, "success", StoredLocation(req.body, t))
    ELSE Reply(404, "not found", LocationMissing)

\* whether the handler writes location.json
StoresAnyKeyMutant(req) ==
    /\ req.method = "POST"
    /\ req.path = "/location"
    /\ ~BodyThrows(req.body)
    /\ req.body.type \in {"", "location"}

Stores(req) ==
    /\ req.method = "POST"
    /\ req.path = "/location"
    /\ req.key = SECRET_KEY
    /\ ~BodyThrows(req.body)
    /\ req.body.type \in {"", "location"}

\* a server that keeps the first location it was sent
HandleFirstWinsMutant(requests) ==
    /\ \E req \in requests :
          /\ locationFile' = IF Stores(req) /\ locationFile.kind = "missing"
                             THEN StoredLocation(req.body, now)
                             ELSE locationFile
          /\ web' = [request |-> req,
                     reply |-> Respond(req, locationFile, now),
                     accepted |-> IF Stores(req) THEN StoredLocation(req.body, now)
                                  ELSE web.accepted]
    /\ UNCHANGED <<now, configFile, overrideFile, logs, run, emitted, injector>>
    /\ UNCHANGED <<escVars, selfVars>>

\* the server handles one request
Handle(requests) ==
    /\ \E req \in requests :
          /\ locationFile' = IF Stores(req) THEN StoredLocation(req.body, now)
                             ELSE locationFile
          /\ web' = [request |-> req,
                     reply |-> Respond(req, locationFile, now),
                     accepted |-> IF Stores(req) THEN StoredLocation(req.body, now)
                                  ELSE web.accepted]
    /\ UNCHANGED <<now, configFile, overrideFile, logs, run, emitted, injector>>
    /\ UNCHANGED <<escVars, selfVars>>

(***************************************************************************)
(* Specifications                                                          *)
(***************************************************************************)
\* the escalation check, polled while the assistant keeps safety-state.json
InitEsc ==
    /\ now = 0
    /\ stateFile = FileMissing
    /\ decision = NoOutput
    /\ escalated = 0
    /\ locationFile = LocationMissing
    /\ overrideFile = OverrideNone
    /\ logs = <<>>
    /\ run = RunIdle
    /\ emitted = <<>>
    /\ injector = InjectorIdle
    /\ myLocationFile = LocationMissing
    /\ self = SelfIdle
    /\ configFile = ConfigMissing
    /\ web = WebIdle

NextEsc ==
    \/ Tick
    \/ RaiseAlert
    \/ Acknowledge
    \/ ClearAlert
    \/ CorruptState
    \/ Poll

SpecEsc == InitEsc /\ [][NextEsc]_vars

\* the schedule runs the check again and again, and time passes
SpecEscLive == InitEsc /\ [][NextEsc]_vars /\ WF_vars(Tick) /\ WF_vars(Poll)

\* the escalation check on a machine where the user runs setup
Contacts == {"", "friend@example.org", EMERGENCY_CONTACT}

NextEscSetup ==
    \/ NextEsc
    \/ Setup(Contacts)

SpecEscSetup == InitEsc /\ [][NextEscSetup]_vars

\* the escalation check polled on the documented schedule
NextSchedule ==
    \/ ScheduledTick
    \/ RaiseAlert
    \/ Acknowledge
    \/ ClearAlert
    \/ CorruptState
    \/ Poll

SpecSchedule == InitEsc /\ [][NextSchedule]_vars

\* the answers the upstream services give in the runs of the safety check
Failures(body) ==
    {Response("error", 0, body), Response("timeout", 0, body), Response("ok", 500, body)}

NwsResponses ==
    Failures(JsonGarbage) \cup
    {Response("ok", 200, b) : b \in {JsonGarbage, JsonNull, EmptyObject, GeoJson(<<>>),
                                     GeoJson(<<BareFeature>>),
                                     GeoJson(<<NwsFeature("Flood Warning", "Severe")>>)}}

UsgsResponses ==
    Failures(JsonGarbage) \cup
    {Response("ok", 200, b) : b \in {JsonGarbage, JsonNull, EmptyObject, GeoJson(<<>>),
                                     GeoJson(<<BareFeature>>),
                                     GeoJson(<<QuakeFeature(24, TRUE)>>),
                                     GeoJson(<<QuakeFeature(25, TRUE)>>),
                                     GeoJson(<<QuakeFeature(31, FALSE)>>)}}

AqiResponses ==
    Failures(JsonGarbage) \cup
    {Response("ok", 200, b) : b \in {JsonGarbage, JsonNull, EmptyObject,
                                     AirJson(JsNull), AirJson(JsNum(120))}}

FeedResponses ==
    Failures(Feed(<<>>)) \cup
    {Response("ok", 200, Feed(items)) : items \in
        {<<>>,
         <<Item(Title("road closed in seattle", 0, 0), TRUE, TRUE, FALSE, JsIso(0 - 3600000))>>,
         <<Item(Title("road closed in seattle", 1, 1), TRUE, TRUE, FALSE, JsIso(0 - 7200000)),
           Item(Title("flooding trial verdict", 0, 0), TRUE, TRUE, TRUE, JsIso(0))>>}}

\* the override files an earlier run of the injector can have left
OverrideFiles ==
    {OverrideNone, OverrideGarbage,
     [InjectorWrites("weather", 0) EXCEPT !.expiresAt = JsNull],
     [InjectorWrites("earthquake", 0) EXCEPT !.expiresAt = JsText]} \cup
    {InjectorWrites(s, t) : s \in ScenarioNames \cup {"all"},
                            t \in {0 - OVERRIDE_TTL_MS - 1, 0 - OVERRIDE_TTL_MS, 0}}

LocationFiles ==
    {LocationMissing, LocationObject(JsNum(47), JsNum(-122)), LocationObject(JsNum(0), JsNum(-122))}

\* one run of safety-check.js
InitSafety ==
    /\ now = 0
    /\ stateFile = FileMissing
    /\ decision = NoOutput
    /\ escalated = 0
    /\ locationFile \in LocationFiles
    /\ overrideFile \in OverrideFiles
    /\ logs = <<>>
    /\ run = RunIdle
    /\ emitted = <<>>
    /\ injector = InjectorIdle
    /\ myLocationFile = LocationMissing
    /\ self = SelfIdle
    /\ configFile = ConfigMissing
    /\ web = WebIdle

NextSafety ==
    \/ StartRun
    \/ CompleteNWS(NwsResponses)
    \/ CompleteUSGS(UsgsResponses)
    \/ CompleteAQI(AqiResponses)
    \/ CompleteNews(FeedResponses)
    \/ FinishRun

SpecSafety == InitSafety /\ [][NextSafety]_vars

\* every request settles (answer, error or the 10 s timeout) and the event
\* loop runs what is ready
SpecSafetyLive ==
    /\ InitSafety
    /\ [][NextSafety]_vars
    /\ WF_vars(StartRun)
    /\ WF_vars(CompleteNWS(NwsResponses))
    /\ WF_vars(CompleteUSGS(UsgsResponses))
    /\ WF_vars(CompleteAQI(AqiResponses))
    /\ WF_vars(CompleteNews(FeedResponses))
    /\ WF_vars(FinishRun)

\* the injector and the safety check run again and again while time passes:
\* instants within one second, in the next second, and at and just after the
\* hour an override written at 0 lasts
OpsTimes == {0, 500, 1500, OVERRIDE_TTL_MS, OVERRIDE_TTL_MS + 1}

OpsArguments == {"", "weather", "clear", "bogus", "constructor"}

ClearResponses(body) == {Response("ok", 200, body)}

InitOps ==
    /\ now = 0
    /\ stateFile = FileMissing
    /\ decision = NoOutput
    /\ escalated = 0
    /\ locationFile \in {LocationMissing, LocationObject(JsNum(47), JsNum(-122))}
    /\ overrideFile = OverrideNone
    /\ logs = <<>>
    /\ run = RunIdle
    /\ emitted = <<>>
    /\ injector = InjectorIdle
    /\ myLocationFile = LocationMissing
    /\ self = SelfIdle
    /\ configFile = ConfigMissing
    /\ web = WebIdle

NextOps ==
    \/ Elapse(OpsTimes)
    \/ TestScenarios(OpsArguments)
    \/ StartRun
    \/ CompleteNWS(ClearResponses(GeoJson(<<>>)))
    \/ CompleteUSGS(ClearResponses(GeoJson(<<>>)))
    \/ CompleteAQI(ClearResponses(EmptyObject))
    \/ CompleteNews(ClearResponses(Feed(<<>>)))
    \/ FinishRun
    \/ NewProcess

SpecOps == InitOps /\ [][NextOps]_vars

\* the webhook server receiving requests while safety checks run
NoLatLon == <<JsNull, JsNull, JsNull, JsNull>>

Bodies ==
    {[json |-> "garbage"], [json |-> "null"],
     Payload("", <<JsNum(47), JsNull, JsNull, JsNull>>, <<JsNum(-122), JsNull, JsNull, JsNull>>, TRUE),
     Payload("location", <<JsNull, JsNull, JsNum(48), JsNull>>,
             <<JsNull, JsNull, JsNum(-121), JsNull>>, TRUE),
     Payload("location", <<JsNum(47), JsNull, JsNull, JsNull>>,
             <<JsNum(-122), JsNull, JsNull, JsNull>>, FALSE),
     Payload("waypoint", <<JsNum(49), JsNull, JsNull, JsNull>>,
             <<JsNum(-120), JsNull, JsNull, JsNull>>, TRUE),
     Payload("location", <<JsNum(0), JsNull, JsNull, JsNull>>,
             <<JsNum(-122), JsNull, JsNull, JsNull>>, TRUE),
     Payload("", NoLatLon, NoLatLon, TRUE)}

\* every POST /location, the GETs, and requests to other methods and paths
\* that carry the key and a location
Requests ==
    {Request("POST", "/location", key, body) : key \in {SECRET_KEY, "wrong", ""},
                                               body \in Bodies}
    \cup {Request("GET", "/location", key, [json |-> "none"]) : key \in {SECRET_KEY, "wrong", ""}}
    \cup {Request(method, path, SECRET_KEY, body) :
            method \in {"GET", "POST", "PUT", "OPTIONS"},
            path \in {"/location", "/health", "/other"},
            body \in {Payload("location", <<JsNull, JsNull, JsNum(48), JsNull>>,
                               <<JsNull, JsNull, JsNum(-121), JsNull>>, TRUE)}}

NextServer ==
    \/ Handle(Requests)
    \/ StartRun
    \/ CompleteNWS(ClearResponses(GeoJson(<<>>)))
    \/ CompleteUSGS(ClearResponses(GeoJson(<<>>)))
    \/ CompleteAQI(ClearResponses(EmptyObject))
    \/ CompleteNews(ClearResponses(Feed(<<>>)))
    \/ FinishRun
    \/ NewProcess

SpecServer == InitEsc /\ [][NextServer]_vars

\* the feeds the news adapter reads: an item that passes every test of the
\* filter, published msAgo before the instant 0
Hit(head, caps, msAgo) ==
    Item(Title(head, caps, caps), TRUE, TRUE, FALSE, JsIso(0 - msAgo))

\* no items; one report; the same report in another case with a second one;
\* seven reports of six stories; and items that differ in one test of the
\* filter each (vocabulary, place, historical, and publish times exactly a
\* day old, a millisecond less, absent, unparseable, two days and one hour
\* ahead)
NewsFeeds ==
    {<<>>,
     <<Hit("road closed in seattle", 0, 3600000)>>,
     <<Hit("road closed in seattle", 1, 7200000), Hit("wildfire near seattle", 0, 3600000)>>,
     <<Hit("gas leak in seattle", 0, 600000), Hit("flooding in king county", 0, 1200000),
       Hit("gas leak in seattle", 1, 1800000), Hit("lockdown in seattle", 0, 2400000),
       Hit("power outage in seattle", 0, 3000000), Hit("manhunt in king county", 0, 3600000),
       Hit("amber alert in seattle", 0, 4200000)>>,
     <<Item(Title("council meets in seattle", 0, 0), FALSE, TRUE, FALSE, JsIso(0 - 3600000)),
       Item(Title("wildfire in spokane", 0, 0), TRUE, FALSE, FALSE, JsIso(0 - 3600000)),
       Item(Title("shots fired trial verdict in seattle", 0, 0), TRUE, TRUE, TRUE,
            JsIso(0 - 3600000)),
       Item(Title("landslide in seattle", 0, 0), TRUE, TRUE, FALSE, JsIso(0 - RecentMs)),
       Item(Title("mudslide in seattle", 0, 0), TRUE, TRUE, FALSE, JsIso(1 - RecentMs)),
       Item(Title("hazmat in seattle", 0, 0), TRUE, TRUE, FALSE, JsEmpty),
       Item(Title("evacuation order in seattle", 0, 0), TRUE, TRUE, FALSE, JsText),
       Item(Title("flash flood in seattle", 0, 0), TRUE, TRUE, FALSE, JsIso(2 * RecentMs)),
       Item(Title("structure fire in seattle", 0, 0), TRUE, TRUE, FALSE, JsIso(3600000))>>}

NewsFeedResponses ==
    Failures(Feed(<<>>)) \cup {Response("ok", 200, Feed(items)) : items \in NewsFeeds}

\* the answers the configured feeds can give to one run of the adapter
NewsInputs == [1..NumFeeds -> NewsFeedResponses]

\* one run of safety-check.js in which the feeds answer in every way
NextNews ==
    \/ StartRun
    \/ CompleteNWS(ClearResponses(GeoJson(<<>>)))
    \/ CompleteUSGS(ClearResponses(GeoJson(<<>>)))
    \/ CompleteAQI(ClearResponses(EmptyObject))
    \/ CompleteNews(NewsFeedResponses)
    \/ FinishRun

SpecNews == InitOps /\ [][NextNews]_vars

\* the answers of the air-quality service: every index around the limits of
\* the tiers, no index, and no current block
AirResponses ==
    Failures(JsonGarbage) \cup
    {Response("ok", 200, b) : b \in {JsonGarbage, JsonNull, EmptyObject, AirJson(JsNull)}
                                     \cup {AirJson(JsNum(i)) :
                                              i \in {0, 1, 50, 51, 100, 101, 150, 151, 175}}}

\* one run of safety-check.js in which the air-quality service answers in
\* every way
NextAir ==
    \/ StartRun
    \/ CompleteNWS(ClearResponses(GeoJson(<<>>)))
    \/ CompleteUSGS(ClearResponses(GeoJson(<<>>)))
    \/ CompleteAQI(AirResponses)
    \/ CompleteNews(ClearResponses(Feed(<<>>)))
    \/ FinishRun

SpecAir == InitOps /\ [][NextAir]_vars

\* the answers of the probes and upstream services in a run of the self-check
MemoryProbes == {ProbeThrows, ProbeNoMatch, Probe(10), Probe(30)}

DiskProbes == {ProbeThrows, Probe(50), Probe(90), Probe(96)}

TemperatureProbes == {ProbeThrows, Probe(50), Probe(96)}

UptimeProbes == {ProbeThrows, Probe(5), Probe(31)}

SelfNwsResponses ==
    {Response("error", 0, JsonGarbage), Response("timeout", 0, JsonGarbage),
     Response("ok", 500, JsonGarbage), Response("ok", 200, GeoJson(<<>>)),
     Response("ok", 200, GeoJson(<<NwsFeature("Flood Warning", "Severe")>>)),
     Response("ok", 200, GeoJson(<<NwsFeature("Tornado Warning", "Extreme"), BareFeature>>)),
     Response("ok", 200, GeoJson(<<NwsFeature("Frost Advisory", "Minor")>>))}

SelfUsgsResponses ==
    {Response("error", 0, JsonGarbage), Response("timeout", 0, JsonGarbage),
     Response("ok", 200, JsonNull), Response("ok", 200, GeoJson(<<>>)),
     Response("ok", 200, GeoJson(<<QuakeFeature(45, TRUE)>>)),
     Response("ok", 200, GeoJson(<<QuakeFeature(52, TRUE)>>))}

TailscaleStates == {"not json", "", "Running", "Stopped"}

ConnectivityResponses ==
    {Response("error", 0, JsonGarbage), Response("timeout", 0, JsonGarbage),
     Response("ok", 200, JsonGarbage), Response("ok", 503, JsonGarbage)}

MyLocationFiles ==
    {LocationMissing, LocationObject(JsNum(47), JsNum(-122)),
     [kind |-> "jsonnull", lat |-> JsNull, lon |-> JsNull]}

\* one run of self-check.js
InitSelf ==
    /\ now = 0
    /\ stateFile = FileMissing
    /\ decision = NoOutput
    /\ escalated = 0
    /\ locationFile = LocationMissing
    /\ overrideFile \in {OverrideNone, InjectorWrites("disk", 0), InjectorWrites("memory", 0)}
    /\ logs = <<>>
    /\ run = RunIdle
    /\ emitted = <<>>
    /\ injector = InjectorIdle
    /\ myLocationFile \in MyLocationFiles
    /\ self = SelfIdle
    /\ configFile = ConfigMissing
    /\ web = WebIdle

NextSelf ==
    \/ SelfStart(MemoryProbes, DiskProbes, TemperatureProbes, UptimeProbes)
    \/ CompleteEnvironment(SelfNwsResponses, SelfUsgsResponses)
    \/ CompleteNetwork(TailscaleStates, ConnectivityResponses)
    \/ SelfFinish

SpecSelf == InitSelf /\ [][NextSelf]_vars

\* the readings of the four probes around the limits of the sub-checks
HealthProbes ==
    [memory |-> {ProbeThrows, ProbeNoMatch, Probe(19), Probe(20), Probe(39), Probe(40)},
     disk |-> {ProbeThrows, ProbeNoMatch, Probe(85), Probe(86), Probe(95), Probe(96)},
     temperature |-> {ProbeThrows, ProbeNoMatch, Probe(85), Probe(86), Probe(95), Probe(96)},
     uptime |-> {ProbeThrows, ProbeNoMatch, Probe(30), Probe(31)}]

\* one run of self-check.js on a host in every state of health, with
\* nothing to report from the surroundings
InitHealth ==
    /\ now = 0
    /\ stateFile = FileMissing
    /\ decision = NoOutput
    /\ escalated = 0
    /\ locationFile = LocationMissing
    /\ overrideFile = OverrideNone
    /\ logs = <<>>
    /\ run = RunIdle
    /\ emitted = <<>>
    /\ injector = InjectorIdle
    /\ myLocationFile = LocationObject(JsNum(47), JsNum(-122))
    /\ self = SelfIdle
    /\ configFile = ConfigMissing
    /\ web = WebIdle

NextHealth ==
    \/ SelfStart(HealthProbes.memory, HealthProbes.disk, HealthProbes.temperature,
                 HealthProbes.uptime)
    \/ CompleteEnvironment(ClearResponses(GeoJson(<<>>)), ClearResponses(GeoJson(<<>>)))
    \/ CompleteNetwork({"Running"}, ClearResponses(JsonGarbage))
    \/ SelfFinish

SpecHealth == InitHealth /\ [][NextHealth]_vars

(***************************************************************************)
(* Properties of the escalation check                                      *)
(***************************************************************************)
FifteenMinutes == 15 * 60 * 1000

\* the record holds an alert that has not been acknowledged
PendingUnacked(f) ==
    /\ f.kind = "object"
    /\ Truthy(f.pendingAlert)
    /\ Truthy(f.alertSentAt)
    /\ ~Truthy(f.acknowledgedAt)

\* ... whose alertSentAt is a timestamp
PendingValid(f) == PendingUnacked(f) /\ f.alertSentAt.t = "iso"

\* a run has just printed its decision for the current file and clock
Polled == decision.action # "-"

\* C1: for a pending alert that is not acknowledged the check prints
\* 'escalate' if and only if now - alertSentAt >= 15 minutes and 'waiting'
\* otherwise; at 14m59s it prints 'waiting' with minutesRemaining = 1.
C1_ThresholdBoundary ==
    (Polled /\ PendingUnacked(stateFile)) =>
        LET valid == stateFile.alertSentAt.t = "iso"
            e == now - stateFile.alertSentAt.n
        IN  /\ decision.action \in {"escalate", "waiting"}
            /\ decision.action = "escalate" <=> (valid /\ e >= FifteenMinutes)
            /\ (valid /\ e = FifteenMinutes - 1000) =>
                  /\ decision.action = "waiting"
                  /\ decision.minutesRemaining = JsNum(1)

C1_Witness ==
    /\ Polled
    /\ PendingValid(stateFile)
    /\ now - stateFile.alertSentAt.n = FifteenMinutes
    /\ decision.action = "escalate"

\* C2: the check prints 'none' if and only if no pending alert exists (no
\* readable record, or a record without pendingAlert or alertSentAt) or
\* acknowledgedAt is set; 'escalate' is never printed for an acknowledged alert.
C2_NoneIffAbsentOrAcknowledged ==
    Polled =>
        /\ decision.action = "none" <=>
              \/ stateFile.kind # "object"
              \/ ~Truthy(stateFile.pendingAlert)
              \/ ~Truthy(stateFile.alertSentAt)
              \/ Truthy(stateFile.acknowledgedAt)
        /\ (stateFile.kind = "object" /\ Truthy(stateFile.acknowledgedAt))
              => decision.action # "escalate"

\* C3: a pending alert that stays unacknowledged and uncleared is eventually
\* answered by 'escalate', and every run before 15 minutes have elapsed
\* prints 'waiting'.
C3_EventuallyEscalates ==
    /\ PendingValid(stateFile) ~> (decision.action = "escalate" \/ ~PendingValid(stateFile))
    /\ [](Polled /\ PendingValid(stateFile)
             /\ now - stateFile.alertSentAt.n < FifteenMinutes
          => decision.action = "waiting")

C3_Witness ==
    /\ PendingValid(stateFile)
    /\ decision.action = "escalate"
    /\ escalated = 1

\* C4: once a run has printed 'escalate', every later run prints 'escalate'
\* again as long as the record has not been written.
C4_EscalationRepeats ==
    [][(escalated > 0 /\ decision'.action # "-") => decision'.action = "escalate"]_vars

C4_Witness ==
    /\ escalated = 2
    /\ decision.action = "escalate"
    /\ now - stateFile.alertSentAt.n > FifteenMinutes

\* C5: a run writes nothing and changes no file, and a run that follows
\* another with the same record and the same clock prints the same decision.
C5_PureRead ==
    [][/\ decision'.action # "-" =>
            /\ stateFile' = stateFile /\ now' = now
            /\ locationFile' = locationFile /\ overrideFile' = overrideFile /\ logs' = logs
       /\ (decision.action # "-" /\ decision'.action # "-") => decision' = decision]_vars

C5_Witness ==
    /\ escalated = 2
    /\ decision.action = "escalate"
    /\ now - stateFile.alertSentAt.n = FifteenMinutes

\* the record is unreadable or invalid
Corrupted(f) ==
    \/ f.kind \in {"missing", "garbage", "jsonnull"}
    \/ /\ f.kind = "object"
       /\ Truthy(f.pendingAlert)
       /\ Truthy(f.alertSentAt)
       /\ f.alertSentAt.t # "iso"

\* C6: with an unreadable or invalid record the check prints 'none', as if
\* there were no pending alert, and does not crash.
C6_CorruptionIsAbsence ==
    (Polled /\ Corrupted(stateFile)) => decision.action = "none"

(***************************************************************************)
(* Properties of the safety check                                          *)
(***************************************************************************)
IsReport(r) == "status" \in DOMAIN r

\* the run has completed and printed its report
Reported == run.pc = "done" /\ IsReport(run.printed)

\* the override the run applies replaces the result of this source
Overridden(k) == run.testOverride.kind = "object" /\ HasSub(run.testOverride, k)

\* C7: the status of a report is ALL_CLEAR if and only if the ok flag of each
\* of its four checks (after overrides) is true, and ALERTS_FOUND otherwise;
\* a completed run produces no other status.
C7_StatusIffAllOk ==
    Reported =>
          /\ run.printed.status \in {"ALL_CLEAR", "ALERTS_FOUND"}
          /\ run.printed.status = "ALL_CLEAR" <=>
                /\ run.printed.checks.nws.ok = TRUE
                /\ run.printed.checks.usgs.ok = TRUE
                /\ run.printed.checks.aqi.ok = TRUE
                /\ run.printed.checks.news.ok = TRUE

C7_Witness ==
    /\ Reported
    /\ run.printed.status = "ALERTS_FOUND"
    /\ ~run.printed.checks.usgs.ok
    /\ \A k \in Sources \ {"usgs"} : run.printed.checks[k].ok

\* C8: when the upstream call of the weather, seismic or air-quality adapter
\* fails (error, non-2xx status, unparseable body, timeout) the adapter's
\* result has ok = true, no alerts and an error description; a source whose
\* fetch failed is never the one that makes a report ALERTS_FOUND, and with
\* every upstream failing and no override the status is ALL_CLEAR.
C8_FailOpen ==
    /\ \A k \in {"nws", "usgs", "aqi"} :
          run.upstream[k] = "failed" =>
             /\ run.res[k].settled = "fulfilled"
             /\ run.res[k].value.ok = TRUE
             /\ run.res[k].value.alerts = <<>>
             /\ "error" \in DOMAIN run.res[k].value
             /\ run.res[k].value.error # ""
    /\ Reported =>
          \A k \in Sources :
             (run.upstream[k] = "failed" /\ ~Overridden(k)) => run.printed.checks[k].ok
    /\ (Reported /\ run.testOverride.kind # "object"
          /\ \A k \in Sources : run.upstream[k] = "failed")
       => run.printed.status = "ALL_CLEAR"

C8_Witness ==
    /\ Reported
    /\ run.testOverride.kind # "object"
    /\ \A k \in Sources : run.upstream[k] = "failed"
    /\ run.res.nws.value.error = "Timeout"
    /\ run.res.usgs.value.error = "HTTP"
    /\ run.res.aqi.value.error = "exception"
    /\ run.printed.status = "ALL_CLEAR"

\* C10: with a valid location, every combination of adapter outcomes ends in
\* a report that holds a CheckResult for each of the four sources; no adapter
\* rejects.
C10_NoAdapterAbortsTheRun ==
    /\ \A k \in Sources : run.res[k].settled # "rejected"
    /\ (run.pc = "done" /\ run.location.kind = "object") =>
          /\ run.exit = 0
          /\ IsReport(run.printed)
          /\ DOMAIN run.printed.checks = Sources
          /\ \A k \in Sources :
                {"source", "ok", "alerts"} \subseteq DOMAIN run.printed.checks[k]

C10_Witness ==
    /\ Reported
    /\ run.upstream.nws = "malformed"
    /\ run.upstream.usgs = "failed"
    /\ run.upstream.aqi = "ok"
    /\ run.upstream.news = "failed"
    /\ run.res.usgs.value.error = "Timeout"
    /\ DOMAIN run.printed.checks = Sources

(***************************************************************************)
(* Properties of the safety check: location, overrides, history            *)
(***************************************************************************)
IsError(r) == "error" \in DOMAIN r

\* the run ended without a location: the error result is returned, no adapter
\* has a verdict, nothing is logged and no report is printed
C11_ErrorResultReturned ==
    run.pc = "done" =>
       /\ IsError(run.returned) <=> NoLocation(locationFile)
       /\ NoLocation(locationFile) =>
             /\ \A k \in Sources : run.res[k] = Unsettled
             /\ logs = <<>>
             /\ ~IsReport(run.printed)

\* C11: a run without a valid stored location yields the 'No location data
\* available' error result, with no adapter verdict, report or log record,
\* and the error result is what the process prints for its caller.
C11_NoLocationErrorSurfaced ==
    /\ C11_ErrorResultReturned
    /\ (run.pc = "done" /\ NoLocation(locationFile)) =>
          /\ IsError(run.printed)
          /\ run.printed = run.returned

\* C12: with a live override, the report's check of every source the
\* override names is exactly the override's substitute, whatever the adapter
\* produced, and the check of every other source is exactly what its adapter
\* returned.
C12_OverrideWholesale ==
    Reported =>
       \A k \in Sources :
          run.printed.checks[k] =
             IF run.testOverride.kind = "object" /\ HasSub(run.testOverride, k)
             THEN run.testOverride.subs[k]
             ELSE run.res[k].value

C12_Witness ==
    /\ Reported
    /\ run.testOverride.kind = "object"
    /\ HasSub(run.testOverride, "usgs")
    /\ ~HasSub(run.testOverride, "nws")
    /\ IsError(run.res.usgs.value)
    /\ run.printed.checks.usgs = Scenario("earthquake")
    /\ run.res.nws.value.alerts # <<>>
    /\ run.printed.checks.nws = run.res.nws.value

\* the step in which a run of the safety check consults the override
Consults == run.pc = "idle" /\ run'.pc = "fetching"

\* C13: the injector writes an override that expires one hour after it was
\* written; a safety check that consults it before that instant applies it
\* and keeps the record, one that consults it after that instant applies
\* nothing and removes the record.
C13_OverrideExpiry ==
    [][/\ (overrideFile' # overrideFile /\ overrideFile'.kind = "object")
            => overrideFile'.expiresAt = JsIso(now + 60 * 60 * 1000)
       /\ (Consults /\ overrideFile.kind = "object" /\ now < overrideFile.expiresAt.n)
            => (run'.testOverride = overrideFile /\ overrideFile' = overrideFile)
       /\ (Consults /\ overrideFile.kind = "object" /\ now > overrideFile.expiresAt.n)
            => (run'.testOverride = OverrideNone /\ overrideFile' = OverrideNone)
       /\ (Consults /\ overrideFile = OverrideNone)
            => (run'.testOverride = OverrideNone /\ overrideFile' = OverrideNone)]_vars

\* a run has consulted the override the injector wrote after its hour had
\* passed: nothing is applied and the record is gone
C13_Witness ==
    /\ run.pc = "fetching"
    /\ injector = [scenario |-> "weather", exit |-> 0]
    /\ now > 60 * 60 * 1000
    /\ run.testOverride = OverrideNone
    /\ overrideFile = OverrideNone
    /\ Len(emitted) = 1
    /\ emitted[1].checks.nws = Scenario("weather")

\* the source name each adapter puts in its result
SourceName(k) ==
    CASE k = "nws" -> "NWS"
      [] k = "usgs" -> "USGS"
      [] k = "aqi" -> "AirQuality"
      [] k = "news" -> "LocalNews"

\* C24: the report is built only when all four adapters have completed; in
\* every completion order its checks have exactly the keys nws, usgs, aqi,
\* news, each slot holds the result of its own adapter and is never written
\* by another, and status and checks are determined by the adapters'
\* outcomes alone.
C24_ShapeIndependentOfOrder ==
    /\ [](/\ (\E k \in Sources : run.res[k].settled = "pending")
                => (~IsReport(run.printed) /\ logs = <<>>)
          /\ \A k \in Sources :
                run.res[k].settled = "fulfilled" => run.res[k].value.source = SourceName(k)
          /\ Reported =>
                /\ DOMAIN run.printed.checks = Sources
                /\ \A k \in Sources : run.printed.checks[k].source = SourceName(k)
                /\ run.printed.checks =
                      [k \in Sources |-> Merged(run.res[k].value, run.testOverride, k)]
                /\ run.printed.status =
                      IF \A k \in Sources : run.printed.checks[k].ok
                      THEN "ALL_CLEAR" ELSE "ALERTS_FOUND")
    /\ [][\A k \in Sources :
             run.res[k].settled # "pending" => run'.res[k] = run.res[k]]_vars

\* the last adapter of Promise.all, news, has completed with alerts before
\* the first three: its result waits in its own slot and nothing is reported
C24_Witness ==
    /\ run.pc = "fetching"
    /\ run.res.news.settled = "fulfilled"
    /\ run.res.news.value.source = "LocalNews"
    /\ run.res.news.value.alerts # <<>>
    /\ \A k \in {"nws", "usgs", "aqi"} : run.res[k] = Unsettled
    /\ ~IsReport(run.printed)

\* C25: when every request settles, a run with a valid location completes
\* and prints a report; an upstream that hangs until the timeout gives its
\* own source the fail-open result, and the step in which one adapter
\* settles changes no other adapter's result.
C25_EveryRunTerminates ==
    /\ (run.pc = "idle" /\ ~NoLocation(locationFile)) ~> Reported
    /\ (run.pc = "fetching") ~> Reported
    /\ [](\A k \in {"nws", "usgs", "aqi"} :
             IsTimeout(run.res[k]) => run.res[k].value = FailOpen(SourceName(k), "Timeout"))
    /\ [][\A k \in Sources :
             run'.res[k] # run.res[k] =>
                \A j \in Sources \ {k} : run'.res[j] = run.res[j]]_vars

\* the weather upstream hung until the timeout; the run reported, with the
\* other sources' alerts
C25_Witness ==
    /\ Reported
    /\ IsTimeout(run.res.nws)
    /\ run.printed.checks.nws = FailOpen("NWS", "Timeout")
    /\ run.upstream.usgs = "ok"
    /\ run.printed.checks.usgs.alerts # <<>>

\* C26: the override a run applies to its report is the one that is live and
\* unexpired when all adapters have completed: one cleared or expired while
\* they were in flight is not applied, one injected meanwhile is.
C26_OverrideReadAtCompletion ==
    [][(run.pc = "fetching" /\ run'.pc = "done" /\ IsReport(run'.printed)) =>
          run'.printed.checks =
             [k \in Sources |->
                Merged(run.res[k].value, getTestOverride(overrideFile, now), k)]]_vars

\* what the code does instead: it applies the override it read before the
\* adapters started
C26_OverrideReadAtStart ==
    [][(run.pc = "fetching" /\ run'.pc = "done" /\ IsReport(run'.printed)) =>
          run'.printed.checks =
             [k \in Sources |-> Merged(run.res[k].value, run.testOverride, k)]]_vars

(***************************************************************************)
(* Properties of the self-check                                            *)
(***************************************************************************)
SelfReported == self.pc = "done" /\ IsReport(self.printed)

\* the alerts of a kind in the settled result of an adapter
AlertsOfType(k, type) ==
    IF self.res[k].settled # "fulfilled" THEN {}
    ELSE {i \in 1..Len(self.res[k].value.alerts) : self.res[k].value.alerts[i].type = type}

\* the adapter's result is clear and carries no alert
SelfClear(k) ==
    /\ self.res[k].settled = "fulfilled"
    /\ self.res[k].value.ok = TRUE
    /\ self.res[k].value.alerts = <<>>

\* C9, as claimed: for every adapter of the self-check an upstream call that
\* errors or times out leaves the adapter's result clear with no alert, and a
\* run in which nothing but upstream calls failed is ALL_CLEAR.
C9_SelfCheckFailOpen ==
    /\ (self.upstream.weather = "failed" /\ self.upstream.quakes = "failed")
          => SelfClear("environment")
    /\ self.upstream.connectivity = "failed" => SelfClear("network")
    /\ (SelfReported /\ \A u \in DOMAIN self.upstream : self.upstream[u] = "failed"
          /\ (\A p \in DOMAIN self.probes : self.probes[p] = "failed")
          /\ \A i \in 1..Len(self.printed.checks.network.alerts) :
                self.printed.checks.network.alerts[i].severity # "warning")
       => self.printed.status = "ALL_CLEAR"

\* C9, amended: a failing probe command or a failing weather or earthquake
\* call contributes no alert, and an adapter all of whose probes or calls
\* failed is clear; but a connectivity probe that errors or times out makes
\* the network adapter report a critical alert, and the status CRITICAL.
C9_FailOpenExceptConnectivity ==
    /\ self.upstream.weather = "failed" => AlertsOfType("environment", "weather") = {}
    /\ self.upstream.quakes = "failed" => AlertsOfType("environment", "earthquake") = {}
    /\ (self.upstream.weather = "failed" /\ self.upstream.quakes = "failed")
          => SelfClear("environment")
    /\ \A p \in DOMAIN self.probes :
          self.probes[p] = "failed" => AlertsOfType("system", p) = {}
    /\ (\A p \in DOMAIN self.probes : self.probes[p] = "failed") => SelfClear("system")
    /\ self.upstream.connectivity = "failed" =>
          /\ self.res.network.settled = "fulfilled"
          /\ ~self.res.network.value.ok
          /\ Criticals(self.res.network.value.alerts) # {}
    /\ (SelfReported /\ self.upstream.connectivity = "failed")
          => self.printed.status = "CRITICAL"
    /\ (SelfReported /\ self.upstream.connectivity # "failed"
          /\ self.upstream.weather = "failed" /\ self.upstream.quakes = "failed"
          /\ (\A p \in DOMAIN self.probes : self.probes[p] = "failed")
          /\ self.printed.checks.network.ok)
       => self.printed.status = "ALL_CLEAR"

C9_Witness ==
    /\ SelfReported
    /\ self.upstream.weather = "failed"
    /\ self.upstream.quakes = "failed"
    /\ self.upstream.connectivity = "failed"
    /\ self.probes.disk = "failed"
    /\ SelfClear("environment")
    /\ self.printed.status = "CRITICAL"

\* C15: once 'clear' has run no override record exists and it has exited
\* with 0, also when there was no record, in which case nothing else changes;
\* a safety check that starts while 'clear' is the injector's last run
\* applies no substitute.
C15_ClearRemovesOverride ==
    [][/\ injector'.scenario = "clear" =>
            /\ injector'.exit = 0
            /\ overrideFile' = OverrideNone
       /\ (injector' # injector /\ injector'.scenario = "clear" /\ overrideFile = OverrideNone)
            => UNCHANGED <<now, locationFile, overrideFile, logs, run, emitted>>
       /\ (Consults /\ injector.scenario = "clear")
            => run'.testOverride = OverrideNone]_vars

\* an override that a run had applied was cleared within its hour, and the
\* next run has started without it
C15_Witness ==
    /\ injector = [scenario |-> "clear", exit |-> 0]
    /\ now < 60 * 60 * 1000
    /\ Len(emitted) = 1
    /\ emitted[1].checks.nws = Scenario("weather")
    /\ run.pc = "fetching"
    /\ run.testOverride = OverrideNone
    /\ overrideFile = OverrideNone

\* test-override.json is unreadable, or its record has no expiresAt or one
\* that is no timestamp
CorruptOverride(f) ==
    \/ f.kind = "garbage"
    \/ f.kind = "object" /\ f.expiresAt.t # "iso"

\* C16: a safety check that finds the override record unreadable or invalid
\* proceeds as if there were none: it applies no substitute and does not
\* crash.
C16_CorruptOverrideIsAbsence ==
    (CorruptOverride(overrideFile) /\ run.pc # "idle" /\ ~NoLocation(locationFile))
    => /\ run.testOverride = OverrideNone
       /\ run.exit = 0
       /\ Reported => \A k \in Sources : run.printed.checks[k] = run.res[k].value

\* the part of C16 that holds: an unparseable file
C16_GarbageIsAbsence ==
    (overrideFile.kind = "garbage" /\ run.pc # "idle" /\ ~NoLocation(locationFile))
    => /\ run.testOverride = OverrideNone
       /\ run.exit = 0
       /\ Reported => \A k \in Sources : run.printed.checks[k] = run.res[k].value

\* the safety scenarios of the injector and the source each one replaces
SafetyScenarios == {"weather", "earthquake", "aqi", "news"}

\* C17: a safety check that runs with a valid location under the override of
\* a safety scenario (or 'all') while all real sources are clear reports
\* ALERTS_FOUND, and for each overridden source exactly the scenario's alerts;
\* the weather scenario gives one NWS alert, 'Severe Thunderstorm Warning'.
C17_InjectedScenarioReported ==
    (/\ Reported
     /\ run.testOverride.kind = "object"
     /\ run.testOverride.scenario \in SafetyScenarios \cup {"all"}
     /\ \A k \in Sources : run.res[k].value.ok)
    => /\ run.printed.status = "ALERTS_FOUND"
       /\ \A sc \in SafetyScenarios :
             run.testOverride.scenario \in {sc, "all"} =>
                /\ run.printed.checks[ScenarioKey(sc)].alerts = Scenario(sc).alerts
                /\ ~run.printed.checks[ScenarioKey(sc)].ok
       /\ \A sc \in SafetyScenarios :
             run.testOverride.scenario \notin {sc, "all"} =>
                run.printed.checks[ScenarioKey(sc)].alerts = <<>>
       /\ run.testOverride.scenario = "weather" =>
             /\ Len(run.printed.checks.nws.alerts) = 1
             /\ run.printed.checks.nws.alerts[1].event = "Severe Thunderstorm Warning"

C17_Witness ==
    /\ Reported
    /\ run.testOverride = InjectorWrites("weather", 0)
    /\ \A k \in Sources : run.res[k].value.ok
    /\ run.upstream.nws = "ok"
    /\ run.printed.status = "ALERTS_FOUND"
    /\ Len(run.printed.checks.nws.alerts) = 1

\* the log holds one record per completed run, each equal to the report the
\* run printed
OneRecordPerRun ==
    /\ Cardinality(DOMAIN logs) = Len(emitted)
    /\ \A i \in 1..Len(emitted) : \E n \in DOMAIN logs : logs[n] = emitted[i]

\* C20: every completed run of the safety check persists exactly one log
\* record and none overwrites the record of an earlier run: after n completed
\* runs the log holds n records, each equal to the report that run printed.
C20_AppendOnlyHistory == OneRecordPerRun

\* the part of C20 that holds: runs that end in different seconds
C20_DistinctSecondsKept ==
    (\A i, j \in 1..Len(emitted) :
        i # j => LogName(emitted[i].timestamp) # LogName(emitted[j].timestamp))
    => OneRecordPerRun

\* C14: with a live override keyed 'system' (the 'disk' or 'memory'
\* scenario), a self-check run reports the override's substitute as its system
\* check and derives its status from it: CRITICAL for 'disk', WARNINGS for
\* 'memory' when the other checks are clear.
C14_SelfCheckHonoursOverride ==
    (/\ SelfReported
     /\ overrideFile.kind = "object"
     /\ HasSub(overrideFile, "system")
     /\ ~Expired(overrideFile, now))
    => /\ self.printed.checks.system = overrideFile.subs.system
       /\ overrideFile.scenario = "disk" => self.printed.status = "CRITICAL"
       /\ (/\ overrideFile.scenario = "memory"
           /\ self.printed.checks.environment.ok
           /\ self.printed.checks.network.ok) => self.printed.status = "WARNINGS"

\* ok == (alerts is empty)
Consistent(r) == r.ok <=> r.alerts = <<>>

\* every result the adapters of the safety check give for the answers of
\* their upstreams is consistent
SafetyAdaptersConsistent ==
    /\ \A r \in NwsResponses : Consistent(checkNWSAlerts(r).value)
    /\ \A r \in UsgsResponses : Consistent(checkEarthquakes(r).value)
    /\ \A r \in AqiResponses : Consistent(checkAirQuality(r).value)
    /\ \A rs \in [1..NumFeeds -> FeedResponses] : Consistent(checkLocalNews(rs, now).value)

\* C18, as claimed: every CheckResult an adapter produces, of the safety check
\* and of the self-check alike, has ok exactly when its alerts are empty.
C18_OkIffNoAlerts ==
    /\ SafetyAdaptersConsistent
    /\ \A k \in SelfSources :
          self.res[k].settled = "fulfilled" => Consistent(self.res[k].value)

\* C18, amended: the results of the four adapters of the safety check and of
\* the environment and network adapters of the self-check have ok exactly when
\* their alerts are empty; the system health result has ok exactly when none
\* of its alerts has a severity other than 'info'.
C18_OkIffNoAlertsButInfo ==
    /\ SafetyAdaptersConsistent
    /\ \A k \in {"environment", "network"} :
          self.res[k].settled = "fulfilled" => Consistent(self.res[k].value)
    /\ self.res.system.settled = "fulfilled" =>
          (self.res.system.value.ok <=>
              \A i \in 1..Len(self.res.system.value.alerts) :
                 self.res.system.value.alerts[i].severity = "info")

C18_Witness ==
    /\ SelfReported
    /\ self.printed.checks.system.ok
    /\ self.printed.checks.system.alerts = <<SystemAlert("uptime", "info")>>
    /\ ~self.printed.checks.environment.ok
    /\ Len(self.printed.checks.environment.alerts) = 1
    /\ self.printed.checks.network.ok

\* C19: the status of a self-check report is CRITICAL whenever an alert of
\* one of its three checks has severity 'critical', before anything else; it
\* is ALL_CLEAR exactly when all three checks are clear, and so never
\* CRITICAL while they are.
C19_SelfVerdict ==
    SelfReported =>
       /\ self.printed.status \in {"CRITICAL", "WARNINGS", "ALL_CLEAR"}
       /\ (\E k \in SelfSources :
              \E i \in 1..Len(self.printed.checks[k].alerts) :
                 self.printed.checks[k].alerts[i].severity = "critical")
          => self.printed.status = "CRITICAL"
       /\ self.printed.status = "ALL_CLEAR" <=>
             \A k \in SelfSources : self.printed.checks[k].ok
       /\ (\A k \in SelfSources : self.printed.checks[k].ok)
          => self.printed.status # "CRITICAL"

C19_Witness ==
    /\ SelfReported
    /\ self.printed.status = "CRITICAL"
    /\ self.printed.checks.environment.alerts = <<SystemAlert("earthquake", "critical")>>
    /\ self.printed.checks.network.alerts = <<SystemAlert("network", "warning")>>
    /\ self.printed.checks.system.ok

(***************************************************************************)
(* Properties of the configuration and of the webhook                      *)
(***************************************************************************)
\* C21: an 'escalate' decision names the emergency contact of config.json:
\* for every configured contact c, the decision printed under that
\* configuration names c.
C21_EscalateNamesConfiguredContact ==
    (/\ decision.action = "escalate"
     /\ configFile.kind = "object"
     /\ configFile.emergencyContact # "")
    => decision.contact = configFile.emergencyContact

\* a GET or POST of /location without the right key
Unauthorized(req) ==
    req.path = "/location" /\ req.method \in {"GET", "POST"} /\ req.key # SECRET_KEY

AuthorizedPost(req) ==
    req.path = "/location" /\ req.method = "POST" /\ req.key = SECRET_KEY

\* C22: a request with a missing or wrong key is answered 401, a POST with a
\* body that is no JSON 400, a POST of another _type 200 'skipped'; these, a
\* GET, /health and any other path or method leave location.json unchanged;
\* only an authorized POST answered 'success' changes it, and a GET with a
\* wrong key returns no location.
C22_OnlyAuthorizedUpdateStores ==
    [][LET req == web'.request
           r == web'.reply
       IN  /\ Unauthorized(req) =>
                 /\ r.status = 401
                 /\ r.location = LocationMissing
                 /\ locationFile' = locationFile
           /\ (req.method = "GET" \/ req.path # "/location" \/ req.method # "POST")
                 => locationFile' = locationFile
           /\ (AuthorizedPost(req) /\ req.body.json = "garbage") =>
                 (r.status = 400 /\ locationFile' = locationFile)
           /\ (AuthorizedPost(req) /\ req.body.json = "object"
                 /\ req.body.type \notin {"", "location"}) =>
                 (r.status = 200 /\ r.body = "skipped" /\ locationFile' = locationFile)
           /\ locationFile' # locationFile =>
                 (AuthorizedPost(req) /\ r.status = 200 /\ r.body = "success"
                    /\ locationFile' = r.location)]_vars

\* a POST with a wrong key was refused while a location was stored
C22_Witness ==
    /\ web.request.method = "POST"
    /\ web.request.key = "wrong"
    /\ web.request.body.json = "object"
    /\ web.reply.status = 401
    /\ locationFile.kind = "object"
    /\ locationFile = web.accepted
    /\ locationFile.lat # JsOrChain(web.request.body.lats)

\* the last request was a GET /location with the right key
AuthorizedGet ==
    web.request.method = "GET" /\ web.request.path = "/location"
       /\ web.request.key = SECRET_KEY

\* C23: location.json always holds exactly the record of the most recent
\* accepted location POST, and nothing before the first; an authorized GET
\* /location is answered with that record, or 404 'no location data' when
\* there is none; a safety check that starts reads that record.
C23_LatestLocationWins ==
    /\ [](/\ locationFile = web.accepted
          /\ AuthorizedGet =>
                IF web.accepted = LocationMissing
                THEN web.reply = Reply(404, "no location data", LocationMissing)
                ELSE web.reply = Reply(200, "data", web.accepted))
    /\ [][(run.pc = "idle" /\ run'.pc # "idle") =>
             IF NoLocation(web.accepted)
             THEN run'.pc = "done" /\ IsError(run'.returned)
             ELSE run'.pc = "fetching" /\ run'.location = web.accepted]_vars

\* two locations were posted; a run reported the first, an authorized GET
\* returns the second
C23_Witness ==
    /\ AuthorizedGet
    /\ web.reply.status = 200
    /\ web.reply.location.lat = JsNum(48)
    /\ Len(emitted) = 1
    /\ emitted[1].location.lat = JsNum(47)
    /\ locationFile.lat = JsNum(48)

(***************************************************************************)
(* Properties of the local-news adapter                                    *)
(***************************************************************************)
\* the feeds of NewsFeedResponses that were fetched
FetchedFeeds == {resp \in NewsFeedResponses : fetch(resp).settled = "fulfilled"}

\* the items of a fetched feed the adapter looks at
Examined(resp) == 1..Len(Slice0(resp.body.items, ItemsPerFeed))

\* the item at position i of the feed became a candidate alert at instant t
\* (the titles of one feed are distinct)
IsCandidate(resp, i, t) ==
    \E k \in 1..Len(FeedAlerts(resp, 1, t)) :
        FeedAlerts(resp, 1, t)[k].title = resp.body.items[i].title

\* the publish time is a date no more than 24 hours before or after t
WithinDayOf(pubDate, t) ==
    /\ pubDate.t = "iso"
    /\ t - pubDate.n <= RecentMs
    /\ pubDate.n - t <= RecentMs

\* C27, as claimed: an item of a fetched feed becomes a candidate alert if
\* and only if it has a concerning term, a location keyword, no historical
\* term and a publish time within 24 hours of now; an item whose publish
\* time is absent, unparseable or more than 24 hours away never surfaces.
C27_CandidateIffFilter ==
    \A resp \in FetchedFeeds : \A i \in Examined(resp) :
        LET item == resp.body.items[i] IN
        /\ IsCandidate(resp, i, now) =>
              (item.concerning /\ item.isLocal /\ ~item.historical
                 /\ WithinDayOf(item.pubDate, now))
        /\ (item.concerning /\ item.isLocal /\ ~item.historical
               /\ WithinDayOf(item.pubDate, now) /\ now - item.pubDate.n # RecentMs)
              => IsCandidate(resp, i, now)

\* what the filter does: the publish time only has to be less than 24 hours
\* in the past, so every parseable time in the future passes
C27_CandidateIffNotOlderThanDay ==
    \A resp \in FetchedFeeds : \A i \in Examined(resp) :
        LET item == resp.body.items[i] IN
        IsCandidate(resp, i, now) <=>
            (item.concerning /\ item.isLocal /\ ~item.historical
               /\ item.pubDate.t = "iso" /\ now - item.pubDate.n < RecentMs)

\* the run reports the item published two days ahead
C27_FutureItemReported ==
    /\ run.pc = "done"
    /\ "checks" \in DOMAIN run.printed
    /\ \E k \in 1..Len(run.printed.checks.news.alerts) :
          run.printed.checks.news.alerts[k].title = Title("flash flood in seattle", 0, 0)

\* the first 50 characters of an alert's title, lowercased
Prefix(alert) == alert.title.head

\* the alerts of a list that no earlier alert shares its prefix with
RECURSIVE FirstOfEachPrefix(_, _)
FirstOfEachPrefix(alerts, i) ==
    IF i > Len(alerts) THEN <<>>
    ELSE (IF \E j \in 1..(i - 1) : Prefix(alerts[j]) = Prefix(alerts[i])
          THEN <<>> ELSE <<alerts[i]>>) \o FirstOfEachPrefix(alerts, i + 1)

DistinctPrefixes(alerts) ==
    \A i, j \in 1..Len(alerts) : Prefix(alerts[i]) = Prefix(alerts[j]) => i = j

\* the news result of the run, once the adapter has returned
NewsReturned == run.res.news.settled = "fulfilled"

\* C28: of the candidate alerts of all feeds, taken feed by feed in the
\* configured order and item by item, exactly the first alert of every
\* lowercased 50-character title prefix is kept, whichever feed it came
\* from; no two alerts of a news result share a prefix.
C28_FirstOfEachPrefixKept ==
    /\ \A rs \in NewsInputs :
          LET candidates == AllFeedAlerts(rs, 1, now)
              unique == Dedupe(candidates, {})
          IN  /\ unique = FirstOfEachPrefix(candidates, 1)
              /\ DistinctPrefixes(unique)
              /\ DistinctPrefixes(checkLocalNews(rs, now).value.alerts)
    /\ NewsReturned => DistinctPrefixes(run.res.news.value.alerts)

\* the second feed repeated the first feed's report in another case before
\* its own report: the first feed's alert and the own report are returned
C28_Witness ==
    /\ NewsReturned
    /\ run.res.news.value.alerts =
          <<[title |-> Title("road closed in seattle", 0, 0), feed |-> 1, age |-> JsNum(1)],
            [title |-> Title("wildfire near seattle", 0, 0), feed |-> 2, age |-> JsNum(1)]>>

\* C29: a news result never carries more than 5 alerts; they are the first 5
\* of the deduplicated alerts in discovery order, and the result is clear
\* if and only if no alert survives the filter and the deduplication, which
\* is the case exactly when it carries no alert.
C29_CappedAndClearIffNone ==
    /\ \A rs \in NewsInputs :
          LET unique == FirstOfEachPrefix(AllFeedAlerts(rs, 1, now), 1)
              result == checkLocalNews(rs, now).value
          IN  /\ Len(result.alerts) <= NewsCap
              /\ result.alerts = [k \in 1..Len(result.alerts) |-> unique[k]]
              /\ Len(unique) <= NewsCap => result.alerts = unique
              /\ result.ok <=> unique = <<>>
              /\ result.ok <=> result.alerts = <<>>
    /\ NewsReturned =>
          /\ Len(run.res.news.value.alerts) <= NewsCap
          /\ run.res.news.value.ok <=> run.res.news.value.alerts = <<>>

\* the first feed reported six stories: five of them are returned, in the
\* feed's order, and the result is not clear
C29_Witness ==
    /\ NewsReturned
    /\ ~run.res.news.value.ok
    /\ Len(run.res.news.value.alerts) = NewsCap
    /\ \A k \in 1..NewsCap : run.res.news.value.alerts[k].feed = 1
    /\ run.res.news.value.alerts[1].title = Title("gas leak in seattle", 0, 0)
    /\ run.res.news.value.alerts[NewsCap].title = Title("manhunt in king county", 0, 0)

\* the feeds whose fetch succeeded
Succeeded(rs) == {i \in 1..Len(rs) : fetch(rs[i]).settled = "fulfilled"}

\* the candidate alerts when only the feeds in configured are read
RECURSIVE AlertsOfFeedsIn(_, _, _, _)
AlertsOfFeedsIn(rs, configured, i, t) ==
    IF i > Len(rs) THEN <<>>
    ELSE (IF i \in configured THEN FeedAlertsFrom(Slice0(rs[i].body.items, ItemsPerFeed), 1, i, t)
          ELSE <<>>) \o AlertsOfFeedsIn(rs, configured, i + 1, t)

\* C30: when some feeds cannot be fetched the news adapter returns the
\* result built from the items of the feeds that could, the same as if the
\* failed feeds were not configured; when no feed can be fetched the result
\* is clear with no alerts; the adapter always returns a result.
C30_FailedFeedsLeftOut ==
    /\ \A rs \in NewsInputs :
          LET expected == FirstOfEachPrefix(AlertsOfFeedsIn(rs, Succeeded(rs), 1, now), 1)
              result == checkLocalNews(rs, now)
          IN  /\ result.settled = "fulfilled"
              /\ result.value.alerts = Slice0(expected, NewsCap)
              /\ result.value.ok <=> expected = <<>>
              /\ Succeeded(rs) = {} => (result.value.ok /\ result.value.alerts = <<>>)
    /\ run.res.news.settled \in {"pending", "fulfilled"}
    /\ NewsReturned => "error" \notin DOMAIN run.res.news.value
    /\ (NewsReturned /\ run.upstream.news = "failed") =>
          (run.res.news.value.ok /\ run.res.news.value.alerts = <<>>)

\* the first feed could not be fetched and the second one reported two
\* stories: both are returned
C30_Witness ==
    /\ NewsReturned
    /\ run.upstream.news = "partial"
    /\ run.res.news.value.alerts =
          <<[title |-> Title("road closed in seattle", 1, 1), feed |-> 2, age |-> JsNum(2)],
            [title |-> Title("wildfire near seattle", 0, 0), feed |-> 2, age |-> JsNum(1)]>>

(***************************************************************************)
(* Properties of the air-quality adapter                                   *)
(***************************************************************************)
\* the index a body carries: us_aqi of its current block, 0 when missing
IndexOf(body) ==
    IF body.json = "object" /\ body.hasCurrent /\ body.us_aqi.t = "num" THEN body.us_aqi.n ELSE 0

\* the answers the adapter could read an object from
AirBodiesRead ==
    {resp \in AirResponses : fetch(resp).settled = "fulfilled" /\ resp.body.json = "object"}

\* the tiers of the index, as documented
TierOf(index) ==
    CASE index > 150 -> "Unhealthy"
      [] index > 100 /\ index <= 150 -> "Unhealthy for Sensitive Groups"
      [] index > 50 /\ index <= 100 -> "Moderate"
      [] index <= 50 -> "Good"

TieredResult(result, index) ==
    /\ result.current = [aqi |-> index, level |-> TierOf(index)]
    /\ result.ok <=> index <= 100
    /\ index > 100 => result.alerts = <<[aqi |-> index, level |-> TierOf(index)]>>
    /\ index <= 100 => result.alerts = <<>>

\* C31: the air-quality result is clear if and only if the index is at most
\* 100; above 150 it is 'Unhealthy', above 100 'Unhealthy for Sensitive
\* Groups', each with exactly one alert carrying index and label; above 50
\* it is 'Moderate' and otherwise 'Good', both clear without alert; a
\* missing index counts as 0.
C31_AirQualityTiers ==
    /\ \A resp \in AirBodiesRead :
          TieredResult(checkAirQuality(resp).value, IndexOf(resp.body))
    /\ (run.res.aqi.settled = "fulfilled" /\ "current" \in DOMAIN run.res.aqi.value) =>
          TieredResult(run.res.aqi.value, run.res.aqi.value.current.aqi)

\* the service reported exactly 100 and the run printed a clear 'Moderate'
\* air-quality check
C31_Witness ==
    /\ run.pc = "done"
    /\ "checks" \in DOMAIN run.printed
    /\ run.printed.checks.aqi.ok
    /\ "current" \in DOMAIN run.printed.checks.aqi
    /\ run.printed.checks.aqi.current = [aqi |-> 100, level |-> "Moderate"]

(***************************************************************************)
(* Properties of the self-check's system health                            *)
(***************************************************************************)
SubChecks == {"memory", "disk", "temperature", "uptime"}

OfKind(alerts, kind) == SelectSeq(alerts, LAMBDA a : a.type = kind)

\* the alert a reading calls for, as documented ("none": no alert)
DocumentedSeverity(kind, v) ==
    CASE kind = "memory" -> IF v < 20 THEN "critical" ELSE IF v < 40 THEN "warning" ELSE "none"
      [] kind \in {"disk", "temperature"} ->
            IF v > 95 THEN "critical" ELSE IF v > 85 THEN "warning" ELSE "none"
      [] kind = "uptime" -> IF v > 30 THEN "info" ELSE "none"

\* the alerts of one sub-check are what its probe calls for
SubCheckAsDocumented(alerts, kind, probe) ==
    /\ Len(OfKind(alerts, kind)) <= 1
    /\ ~probe.matched => OfKind(alerts, kind) = <<>>
    /\ probe.matched =>
          OfKind(alerts, kind) =
             (IF DocumentedSeverity(kind, probe.value) = "none" THEN <<>>
              ELSE <<SystemAlert(kind, DocumentedSeverity(kind, probe.value))>>)

ClearIffNoneAboveInfo(result) ==
    result.ok <=> \A i \in 1..Len(result.alerts) : result.alerts[i].severity = "info"

\* C32: every sub-check of the system health (memory, disk, temperature,
\* uptime) contributes no alert or one, of the documented severity for its
\* reading; a sub-check whose probe fails contributes none; the system
\* result is clear if and only if no alert is above info.
C32_SubChecksAsDocumented ==
    /\ \A mem \in HealthProbes.memory, disk \in HealthProbes.disk,
          temp \in HealthProbes.temperature, up \in HealthProbes.uptime :
          LET result == checkSystemHealth(mem, disk, temp, up)
              probe == [memory |-> mem, disk |-> disk, temperature |-> temp, uptime |-> up]
          IN  /\ \A kind \in SubChecks : SubCheckAsDocumented(result.alerts, kind, probe[kind])
              /\ Len(result.alerts) <= 4
              /\ ClearIffNoneAboveInfo(result)
    /\ self.res.system.settled = "fulfilled" =>
          /\ \A kind \in SubChecks :
                /\ Len(OfKind(self.res.system.value.alerts, kind)) <= 1
                /\ self.probes[kind] = "failed" => OfKind(self.res.system.value.alerts, kind) = <<>>
          /\ ClearIffNoneAboveInfo(self.res.system.value)

\* the memory probe failed, the disk is 96% full, the processor is at 86
\* degrees and the host is up 31 days: one critical, one warning and one
\* info alert, and the system check is not clear
C32_Witness ==
    /\ self.res.system.settled = "fulfilled"
    /\ self.probes.memory = "failed"
    /\ ~self.res.system.value.ok
    /\ self.res.system.value.alerts =
          <<SystemAlert("disk", "critical"), SystemAlert("temperature", "warning"),
            SystemAlert("uptime", "info")>>

(***************************************************************************)
(* Properties of the escalation check: arithmetic, acknowledgment,         *)
(* schedule                                                                *)
(***************************************************************************)
OneMinute == 60 * 1000

\* the least number of whole minutes that cover ms milliseconds
CeilMinutes(ms) == (ms + OneMinute - 1) \div OneMinute

\* minutesRemaining of the run on record f at instant t, for a record with
\* a timestamp that the run answers by 'waiting'
RemainingAt(f, t) == Run(f, t).minutesRemaining.n

\* C33: in every 'waiting' decision minutesRemaining is
\* ceil((15 min - elapsed) / 1 min) with elapsed = now - alertSentAt in
\* milliseconds; for alertSentAt <= now it is an integer from 1 to 15; it
\* never increases from one poll to a later poll of the same alert; and
\* minutesPending of an 'escalate' decision is at least 15.
C33_RemainingMinutes ==
    /\ (Polled /\ decision.action = "waiting") =>
          IF stateFile.alertSentAt.t = "iso"
          THEN LET elapsed == now - stateFile.alertSentAt.n IN
               /\ decision.minutesRemaining = JsNum(CeilMinutes(FifteenMinutes - elapsed))
               /\ stateFile.alertSentAt.n <= now =>
                     (decision.minutesRemaining.n >= 1 /\ decision.minutesRemaining.n <= 15)
          ELSE decision.minutesRemaining = JsNaN
    /\ PendingValid(stateFile) =>
          \A t1, t2 \in TimePoints :
              (t1 <= t2 /\ Run(stateFile, t1).action = "waiting"
                        /\ Run(stateFile, t2).action = "waiting")
                 => RemainingAt(stateFile, t2) <= RemainingAt(stateFile, t1)
    /\ (Polled /\ decision.action = "escalate") =>
          (decision.minutesPending.t = "num" /\ decision.minutesPending.n >= 15)

\* one millisecond after the alert was sent the poll answers 'waiting' with
\* 15 minutes remaining
C33_Witness ==
    /\ Polled
    /\ PendingValid(stateFile)
    /\ now - stateFile.alertSentAt.n = 1
    /\ decision.action = "waiting"
    /\ decision.minutesRemaining = JsNum(15)

\* the record holds an alert with a timestamp and an acknowledgment that is
\* older than the alert
StaleAcknowledgment(f) ==
    /\ f.kind = "object"
    /\ Truthy(f.pendingAlert)
    /\ f.alertSentAt.t = "iso"
    /\ f.acknowledgedAt.t = "iso"
    /\ f.acknowledgedAt.n < f.alertSentAt.n

\* C34, as claimed: acknowledgedAt suppresses the escalation only when it is
\* not older than alertSentAt; a new alert recorded while an older
\* acknowledgedAt is still in the record is escalated once 15 minutes have
\* elapsed.
C34_StaleAcknowledgmentIgnored ==
    (Polled /\ StaleAcknowledgment(stateFile)) =>
        /\ decision.action # "none"
        /\ now - stateFile.alertSentAt.n >= FifteenMinutes => decision.action = "escalate"

\* what the check does: any acknowledgedAt in the record, however old,
\* makes every run print 'none'
C34_AnyAcknowledgmentSuppresses ==
    (Polled /\ stateFile.kind = "object" /\ Truthy(stateFile.pendingAlert)
       /\ Truthy(stateFile.alertSentAt) /\ Truthy(stateFile.acknowledgedAt))
      => (decision.action = "none" /\ decision.reason = "already acknowledged")

\* a new alert is 15 minutes old, the record still holds the older
\* acknowledgment, and the run prints 'none'
C34_StaleAcknowledgmentSuppresses ==
    /\ Polled
    /\ StaleAcknowledgment(stateFile)
    /\ now - stateFile.alertSentAt.n >= FifteenMinutes
    /\ decision.action = "none"

TwentyFiveMinutes == 25 * 60 * 1000

\* C35: with the check polled no more than 10 minutes apart and the alert
\* neither acknowledged nor cleared, no poll before 15 minutes prints
\* 'escalate', and the first 'escalate' is printed by a poll taken at least
\* 15 and less than 25 minutes after alertSentAt (so a poll at 25 minutes or
\* later is never the first to escalate).
C35_FirstEscalationWithin25Minutes ==
    (Polled /\ PendingValid(stateFile)) =>
        LET e == now - stateFile.alertSentAt.n IN
        /\ e < FifteenMinutes => (decision.action # "escalate" /\ escalated = 0)
        /\ (decision.action = "escalate" /\ escalated = 1) =>
              (e >= FifteenMinutes /\ e < TwentyFiveMinutes)
        /\ e >= TwentyFiveMinutes => (decision.action = "escalate" /\ escalated >= 2)

\* polled 14m59s after the alert and again 10 minutes later: the first
\* 'escalate', one second before 25 minutes
C35_Witness ==
    /\ Polled
    /\ PendingValid(stateFile)
    /\ now - stateFile.alertSentAt.n = TwentyFiveMinutes - 1000
    /\ decision.action = "escalate"
    /\ escalated = 1

(***************************************************************************)
(* Properties of the stored location and of the override                   *)
(***************************************************************************)
\* location.json holds a numeric latitude and longitude
ValidLocation(f) == f.kind = "object" /\ f.lat.t = "num" /\ f.lon.t = "num"

\* the coordinate a body carries: the first spelling that holds a number
RECURSIVE Carried(_)
Carried(vs) ==
    IF vs = <<>> THEN JsNull
    ELSE IF vs[1].t = "num" THEN vs[1]
    ELSE Carried(Tail(vs))

CarriesCoordinates(body) ==
    body.json = "object" /\ Carried(body.lats).t = "num" /\ Carried(body.lons).t = "num"

\* C36, as claimed: once location.json holds a valid location it holds one
\* after every later request to the server; an accepted POST that carries a
\* numeric lat and lon, 0 included, stores exactly those coordinates.
C36_ValidLocationKept ==
    [][/\ ValidLocation(locationFile) => ValidLocation(locationFile')
       /\ (web' # web /\ Stores(web'.request) /\ CarriesCoordinates(web'.request.body)) =>
             /\ locationFile'.lat = Carried(web'.request.body.lats)
             /\ locationFile'.lon = Carried(web'.request.body.lons)]_vars

\* what the server does: every accepted POST replaces the file by the
\* record built with ||, in which a coordinate that is absent or 0 is lost
C36_AcceptedPostStoresTruthyCoordinates ==
    [][(web' # web /\ Stores(web'.request)) =>
          /\ locationFile'.lat = JsOrChain(web'.request.body.lats)
          /\ locationFile'.lon = JsOrChain(web'.request.body.lons)
          /\ (\A i \in 1..4 : ~Truthy(web'.request.body.lats[i])) =>
                ~ValidLocation(locationFile')]_vars

\* a run reported the location at latitude 47; then a POST on the equator
\* was accepted and location.json holds no latitude
C36_ValidLocationLost ==
    /\ Len(emitted) = 1
    /\ emitted[1].location.lat = JsNum(47)
    /\ web.reply.status = 200
    /\ web.reply.body = "success"
    /\ Carried(web.request.body.lats) = JsNum(0)
    /\ locationFile.lat = JsNull

\* a step of test-scenarios.js: it finished, or changed the override, while
\* no run of the safety check moved
InjectorStep ==
    /\ injector' # injector \/ overrideFile' # overrideFile
    /\ run' = run
    /\ now' = now

\* C37, as claimed: after every inject or clear the override record holds
\* exactly the substitutes of the most recent successful inject, none after
\* a clear, so nothing of an earlier scenario stays in force; an inject with
\* an unknown scenario name exits with 1 and leaves the override unchanged.
C37_LastInjectWins ==
    [][InjectorStep =>
          LET arg == injector'.scenario IN
          CASE arg = "clear" -> overrideFile' = OverrideNone
            [] arg \in ScenarioNames \cup {"all"} ->
                  (injector'.exit = 0 /\ overrideFile' = InjectorWrites(arg, now))
            [] OTHER -> (injector'.exit = 1 /\ overrideFile' = overrideFile)]_vars

\* what the injector does: a name that is no scenario but an inherited
\* property of the scenarios object is accepted, and replaces the override
\* by one without substitutes
C37_LastInjectWinsButInherited ==
    [][InjectorStep =>
          LET arg == injector'.scenario IN
          CASE arg = "clear" -> overrideFile' = OverrideNone
            [] arg \in ScenarioNames \cup {"all"} ->
                  (injector'.exit = 0 /\ overrideFile' = InjectorWrites(arg, now))
            [] arg \in InheritedNames ->
                  /\ injector'.exit = 0
                  /\ overrideFile'.kind = "object"
                  /\ \A k \in OverrideKeys : ~HasSub(overrideFile', k)
            [] OTHER -> (injector'.exit = 1 /\ overrideFile' = overrideFile)]_vars

\* 'constructor' was injected after a report with the weather scenario:
\* exit 0, and the override holds no substitute
C37_InheritedNameAccepted ==
    /\ injector = [scenario |-> "constructor", exit |-> 0]
    /\ overrideFile.kind = "object"
    /\ \A k \in OverrideKeys : ~HasSub(overrideFile, k)
    /\ Len(emitted) = 1
    /\ emitted[1].checks.nws = Scenario("weather")

(***************************************************************************)
(* Properties of the self-check: severities                                *)
(***************************************************************************)
\* the top level of the severity ordering
TopSeverities == {"critical", "severe", "extreme"}

\* C38, as claimed: a self-check report with an alert of severity critical,
\* severe or extreme has status CRITICAL; in particular a weather alert of
\* severity 'severe' or 'extreme' gives CRITICAL as a 'critical' alert does.
C38_TopSeverityIsCritical ==
    SelfReported =>
       ((\E k \in SelfSources :
            \E i \in 1..Len(self.printed.checks[k].alerts) :
               self.printed.checks[k].alerts[i].severity \in TopSeverities)
        => self.printed.status = "CRITICAL")

\* what the self-check does: only the severity 'critical' gives CRITICAL; a
\* report whose alerts are at most severe or extreme has status WARNINGS
C38_OnlyCriticalIsCritical ==
    SelfReported =>
       (self.printed.status = "CRITICAL" <=>
           \E k \in SelfSources :
              \E i \in 1..Len(self.printed.checks[k].alerts) :
                 self.printed.checks[k].alerts[i].severity = "critical")

\* the weather service reported an Extreme alert, nothing else is wrong, and
\* the status is WARNINGS
C38_ExtremeWeatherIsWarning ==
    /\ SelfReported
    /\ self.printed.checks.environment.alerts = <<SystemAlert("weather", "extreme")>>
    /\ self.printed.checks.system.ok
    /\ self.printed.checks.network.ok
    /\ self.printed.status = "WARNINGS"

====
